---- MODULE Spec2Model ----
(***************************************************************************)
(* KNX / ETN reconciliation pipeline: tokenizer, entity matcher, SAP       *)
(* origin inference, field-category derivation and reference expansion.    *)
(*                                                                         *)
(* Python strings are modelled as sequences of one-character strings, so   *)
(* that splitting, case folding, stripping and joining are computed and    *)
(* not assumed.                                                            *)
(***************************************************************************)
EXTENDS Integers, Sequences, FiniteSets, TLC

VARIABLES
    tok_value,      \* _tokenize: the value under normalisation
    tok_tokens,     \* normalized_tokens of tok_value
    tok_bag,        \* token_bag of tok_value
    tok_keys,       \* normalized_keys = _generate_keys(tok_tokens)
    tok_again,      \* normalized tokens of '.'.join(tok_tokens)
    pcTok,          \* position of the tokenizer driver
    rec_knx_rows,   \* _match_records: field_name of the table's knx_extended rows
    rec_etn_rows,   \* _match_records: target_field of the table's etn_mappings rows
    knx_records,    \* the prepared KNX records of the table
    etn_records,    \* the prepared ETN records of the table
    matches,        \* the list _reconcile_table returned
    pcRec,          \* position of the matcher
    sap_in,         \* arguments of _derive_sap_strategy
    sap_out,        \* the dict _derive_sap_strategy returned
    pcSap,          \* position of the SAP inference
    cat_row,        \* the row handed to _determine_field_category
    cat_out,        \* the category it returned
    pcCat,          \* position of the category derivation
    exp_schema,     \* contents of knx_doc_tables and knx_doc_columns
    exp_max_depth,  \* ExtendKnxDoc.max_depth
    exp_root,       \* the base row whose reference is being expanded
    exp_stack,      \* activations of _expand_reference_recursively, innermost last
    exp_return,     \* the most recent return of _expand_reference_recursively
    exp_result,     \* recursive_extended as the root call returned it
    exp_log,        \* the messages logger.debug was given by the early returns
    exp_final_rows, \* final_rows of _build_final_rows for the root's base row
    exp_sequence,   \* extended_sequence: root id -> last sequence number given
    pcExp,          \* position of the expansion
    id_root,        \* original_id: the id of a root row
    id_sequence,    \* extended_sequence[original_id]
    id_values,      \* the decimal ids given to the root's expanded fields so far
    pcId,           \* position of the id loop
    mr_knx_df,      \* data['knx_extended']: rows with table_name and field_name
    mr_etn_df,      \* data['etn_mappings']: rows with knx_table and target_field
    match_payloads, \* what _match_records returned
    pcMr,           \* position of _match_records
    cdm_table,      \* committed contents of etn_cdm_mappings
    ps_previous,    \* contents of etn_cdm_mappings when the current run began
    ps_rows,        \* assembled_rows of the current run
    ps_run,         \* number of the current run
    ps_outcome,     \* how the last run ended: "none", "returned" or "raised"
    pcPs,           \* position of run
    asm_payload,    \* the match payload handed to _assemble_rows
    asm_row,        \* the row assembled from it
    pcAsm,          \* position of the row assembly
    db_tables,      \* rows of knx_doc_tables
    db_columns,     \* rows of knx_doc_columns
    db_call,        \* arguments and result of the latest insert_table_data call
    db_before,      \* both tables as they were before that call
    db_calls,       \* number of insert_table_data calls so far
    pcDb,           \* position of the database component
    ext_exists,     \* self.excel_path.exists()
    ext_tab,        \* the sheet read in the latest turn of the loop over TAB_NAMES
    ext_idx,        \* number of tab names the loop has handled
    ext_all_data,   \* all_data: the data frames extracted so far
    ext_tab_counts, \* tab_counts: (tab_name, count) in the order of filling
    ext_table,      \* rows of etn_doc_mappings
    ext_result,     \* the result dict of run
    pcExt,          \* position of EtnDocMappingExtractor.run
    run_schema,     \* contents of knx_doc_tables and knx_doc_columns of a whole run
    run_max_depth,  \* max_depth of the ExtendKnxDoc object
    run_base,       \* base_columns_df
    run_idx,        \* number of base rows _build_final_rows has handled
    run_final_rows, \* final_rows
    run_sequence,   \* extended_sequence of _build_final_rows
    run_table,      \* rows of knx_doc_extended as ExtendKnxDoc.run leaves them
    run_count,      \* insert_count returned by ExtendKnxDoc.run
    pcRun,          \* position of ExtendKnxDoc.run
    xp_table,       \* rows of knx_doc_extended as export_to_database leaves them
    pcXp,           \* position of export_to_database
    xl_table,       \* rows of etn_cdm_mappings read by the Excel export
    xl_keys,        \* key_field_lookup of the Excel export
    xl_out,         \* the ETN CDM frame the export prepared
    pcXl            \* position of the Excel export

tokVars == <<tok_value, tok_tokens, tok_bag, tok_keys, tok_again, pcTok>>

recVars == <<rec_knx_rows, rec_etn_rows, knx_records, etn_records, matches, pcRec>>

sapVars == <<sap_in, sap_out, pcSap>>

catVars == <<cat_row, cat_out, pcCat>>

expVars == <<exp_schema, exp_max_depth, exp_root, exp_stack, exp_return, exp_result,
             exp_log, exp_final_rows, exp_sequence, pcExp>>

idVars == <<id_root, id_sequence, id_values, pcId>>

mrVars == <<mr_knx_df, mr_etn_df, match_payloads, pcMr>>

psVars == <<cdm_table, ps_previous, ps_rows, ps_run, ps_outcome, pcPs>>

asmVars == <<asm_payload, asm_row, pcAsm>>

dbVars == <<db_tables, db_columns, db_call, db_before, db_calls, pcDb>>

extVars == <<ext_exists, ext_tab, ext_idx, ext_all_data, ext_tab_counts, ext_table,
             ext_result, pcExt>>

runVars == <<run_schema, run_max_depth, run_base, run_idx, run_final_rows,
             run_sequence, run_table, run_count, pcRun, xp_table, pcXp>>

xlVars == <<xl_table, xl_keys, xl_out, pcXl>>

vars == <<tokVars, recVars, sapVars, catVars, expVars, idVars, mrVars, psVars, asmVars,
          dbVars, extVars, runVars, xlVars>>

\* What the actions of one component leave alone.
tokFrame == <<recVars, sapVars, catVars, expVars, idVars, mrVars, psVars, asmVars,
              dbVars, extVars, runVars, xlVars>>
recFrame == <<tokVars, sapVars, catVars, expVars, idVars, mrVars, psVars, asmVars,
              dbVars, extVars, runVars, xlVars>>
sapFrame == <<tokVars, recVars, catVars, expVars, idVars, mrVars, psVars, asmVars,
              dbVars, extVars, runVars, xlVars>>
catFrame == <<tokVars, recVars, sapVars, expVars, idVars, mrVars, psVars, asmVars,
              dbVars, extVars, runVars, xlVars>>
expFrame == <<tokVars, recVars, sapVars, catVars, idVars, mrVars, psVars, asmVars,
              dbVars, extVars, runVars, xlVars>>
idFrame == <<tokVars, recVars, sapVars, catVars, expVars, mrVars, psVars, asmVars,
             dbVars, extVars, runVars, xlVars>>
mrFrame == <<tokVars, recVars, sapVars, catVars, expVars, idVars, psVars, asmVars,
             dbVars, extVars, runVars, xlVars>>
psFrame == <<tokVars, recVars, sapVars, catVars, expVars, idVars, mrVars, asmVars,
             dbVars, extVars, runVars, xlVars>>
asmFrame == <<tokVars, recVars, sapVars, catVars, expVars, idVars, mrVars, psVars,
              dbVars, extVars, runVars, xlVars>>
dbFrame == <<tokVars, recVars, sapVars, catVars, expVars, idVars, mrVars, psVars,
             asmVars, extVars, runVars, xlVars>>
extFrame == <<tokVars, recVars, sapVars, catVars, expVars, idVars, mrVars, psVars,
              asmVars, dbVars, runVars, xlVars>>
runFrame == <<tokVars, recVars, sapVars, catVars, expVars, idVars, mrVars, psVars,
              asmVars, dbVars, extVars, xlVars>>
xlFrame == <<tokVars, recVars, sapVars, catVars, expVars, idVars, mrVars, psVars,
             asmVars, dbVars, extVars, runVars>>

(***************************************************************************)
(* Characters and strings                                                  *)
(***************************************************************************)
LowerSeq ==
    <<"a","b","c","d","e","f","g","h","i","j","k","l","m",
      "n","o","p","q","r","s","t","u","v","w","x","y","z">>

UpperSeq ==
    <<"A","B","C","D","E","F","G","H","I","J","K","L","M",
      "N","O","P","Q","R","S","T","U","V","W","X","Y","Z">>

DigitSeq == <<"0","1","2","3","4","5","6","7","8","9">>

Range(f) == {f[i] : i \in DOMAIN f}

LowerSet == Range(LowerSeq)
UpperSet == Range(UpperSeq)
DigitSet == Range(DigitSeq)
AlnumSet == LowerSet \cup UpperSet \cup DigitSet

\* \s of the regular expressions and of str.strip(): the blank is the only
\* whitespace character of the modelled alphabet.
Whitespace == {" "}

\* Every character a modelled string may hold.
CharSet == AlnumSet \cup Whitespace \cup {".", "_", "-", "/"}

ToLowerCh(c) ==
    IF c \in UpperSet
    THEN LowerSeq[CHOOSE i \in DOMAIN UpperSeq : UpperSeq[i] = c]
    ELSE c

ToUpperCh(c) ==
    IF c \in LowerSet
    THEN UpperSeq[CHOOSE i \in DOMAIN LowerSeq : LowerSeq[i] = c]
    ELSE c

\* str.lower()
StrLower(s) == [i \in 1..Len(s) |-> ToLowerCh(s[i])]

\* str.upper()
StrUpper(s) == [i \in 1..Len(s) |-> ToUpperCh(s[i])]

\* Number of leading characters of s that lie in S.
PrefixLen(s, S) ==
    CHOOSE n \in 0..Len(s) :
        /\ \A i \in 1..n : s[i] \in S
        /\ (n = Len(s) \/ s[n + 1] \notin S)

\* Number of trailing characters of s that lie in S.
SuffixLen(s, S) ==
    CHOOSE n \in 0..Len(s) :
        /\ \A i \in (Len(s) - n + 1)..Len(s) : s[i] \in S
        /\ (n = Len(s) \/ s[Len(s) - n] \notin S)

\* str.strip()
StrStrip(s) ==
    LET r == SubSeq(s, PrefixLen(s, Whitespace) + 1, Len(s))
    IN  SubSeq(r, 1, Len(r) - SuffixLen(r, Whitespace))

\* str.endswith(suffix)
EndsWith(s, suffix) ==
    /\ Len(s) >= Len(suffix)
    /\ SubSeq(s, Len(s) - Len(suffix) + 1, Len(s)) = suffix

\* str.startswith(prefix)
StartsWith(s, prefix) ==
    /\ Len(s) >= Len(prefix)
    /\ SubSeq(s, 1, Len(prefix)) = prefix

\* The non-empty parts of re.split(<one or more characters of seps>, s); the
\* callers skip the empty parts re.split also returns.
RECURSIVE SplitOn(_, _)
SplitOn(s, seps) ==
    IF s = <<>> THEN <<>>
    ELSE IF Head(s) \in seps THEN SplitOn(Tail(s), seps)
    ELSE LET n == PrefixLen(s, Range(s) \ seps)
         IN  <<SubSeq(s, 1, n)>> \o SplitOn(SubSeq(s, n + 1, Len(s)), seps)

\* sep.join(parts)
RECURSIVE StrJoin(_, _)
StrJoin(parts, sep) ==
    IF parts = <<>> THEN <<>>
    ELSE IF Len(parts) = 1 THEN parts[1]
    ELSE parts[1] \o sep \o StrJoin(Tail(parts), sep)

\* All strings over alphabet of length at most n.
BoundedStrings(alphabet, n) == UNION {[1..k -> alphabet] : k \in 0..n}

(***************************************************************************)
(* Tokenizer / normalizer (etn_cdm_upserter.py)                            *)
(***************************************************************************)
\* re.findall(r'[a-z]+|\d+', segment) as a set
RECURSIVE _split_words(_)
_split_words(segment) ==
    IF segment = <<>> THEN {}
    ELSE IF Head(segment) \in LowerSet
    THEN LET n == PrefixLen(segment, LowerSet)
         IN  {SubSeq(segment, 1, n)}
                \cup _split_words(SubSeq(segment, n + 1, Len(segment)))
    ELSE IF Head(segment) \in DigitSet
    THEN LET n == PrefixLen(segment, DigitSet)
         IN  {SubSeq(segment, 1, n)}
                \cup _split_words(SubSeq(segment, n + 1, Len(segment)))
    ELSE _split_words(Tail(segment))

\* The ies / ses / s rules of the tokenizer loop.
Depluralize(lower) ==
    IF EndsWith(lower, <<"i","e","s">>) /\ Len(lower) > 3
    THEN SubSeq(lower, 1, Len(lower) - 3) \o <<"y">>
    ELSE IF EndsWith(lower, <<"s","e","s">>) /\ Len(lower) > 3
    THEN SubSeq(lower, 1, Len(lower) - 2)
    ELSE IF EndsWith(lower, <<"s">>) /\ Len(lower) > 3
    THEN SubSeq(lower, 1, Len(lower) - 1)
    ELSE lower

StopWord == <<"v","a","l","u","e">>

\* The body of "for part in parts", from the part at index idx on.
RECURSIVE TokenizeParts(_, _, _, _)
TokenizeParts(parts, idx, normalized_segments, token_bag) ==
    IF idx > Len(parts)
    THEN [tokens |-> normalized_segments, bag |-> token_bag]
    ELSE LET cleaned == SelectSeq(parts[idx], LAMBDA c : c \in AlnumSet)
             lower   == StrLower(cleaned)
             stem    == Depluralize(lower)
         IN  IF cleaned = <<>> \/ lower = StopWord
             THEN TokenizeParts(parts, idx + 1, normalized_segments, token_bag)
             ELSE TokenizeParts(parts, idx + 1,
                                Append(normalized_segments, stem),
                                token_bag \cup {stem} \cup _split_words(stem))

\* _tokenize(value) -> (normalized_segments, token_bag)
_tokenize(value) ==
    LET stripped == StrStrip(value)
    IN  IF stripped = <<>>
        THEN [tokens |-> <<>>, bag |-> {}]
        ELSE TokenizeParts(SplitOn(stripped, {".", "_"} \cup Whitespace), 1, <<>>, {})

\* The loop "for idx in range(len(tokens))" of _generate_keys, from idx on
\* (idx is the 1-based position of the tail's first token).
RECURSIVE GenerateKeysLoop(_, _, _)
GenerateKeysLoop(tokens, idx, keys) ==
    IF idx > Len(tokens) THEN keys
    ELSE LET tail == SubSeq(tokens, idx, Len(tokens))
         IN  GenerateKeysLoop(tokens, idx + 1,
                 IF tail # <<>> THEN keys \cup {StrJoin(tail, <<".">>)} ELSE keys)

\* Mutant: the loop starts one position late, losing the full-length key.
_generate_keys_late_start(tokens) ==
    IF tokens = <<>> THEN {} ELSE GenerateKeysLoop(tokens, 2, {})

_generate_keys(tokens) ==
    IF tokens = <<>> THEN {} ELSE GenerateKeysLoop(tokens, 1, {})

(***************************************************************************)
(* Tokenizer driver: the inputs and the calls made on them                 *)
(***************************************************************************)
MaxTokLen == 5

TokAlphabet == {"a", "s", "e", "i", "S", ".", " "}

sCustomerName == <<"C","u","s","t","o","m","e","r","N","a","m","e">>
sCUSTOMERNAME == <<"C","U","S","T","O","M","E","R","N","A","M","E">>
sName == <<"N","a","m","e">>
sNames == <<"N","a","m","e","s">>
sSpaceName == <<" ","N","a","m","e">>
sCustomer_Name == <<"C","u","s","t","o","m","e","r","_","N","a","m","e">>
sCustomerDotName == <<"C","u","s","t","o","m","e","r",".","N","a","m","e">>
sClasses == <<"C","l","a","s","s","e","s">>
sValue == <<"V","a","l","u","e">>
sValues == <<"V","a","l","u","e","s">>
sOrderValue == <<"O","r","d","e","r",".","V","a","l","u","e">>
sCompanies == <<"C","o","m","p","a","n","i","e","s">>
sPart2Id == <<"P","a","r","t","2","-","I","d">>
sABC == <<"a",".","b",".","c">>

TokSamples ==
    {sCustomerName, sName, sNames, sSpaceName, sCustomer_Name, sCustomerDotName,
     sClasses, sValue, sValues, sOrderValue, sCompanies, sPart2Id, sABC}

TokInputs == BoundedStrings(TokAlphabet, MaxTokLen) \cup TokSamples

TokIdle ==
    /\ tok_value = <<>>
    /\ tok_tokens = <<>>
    /\ tok_bag = {}
    /\ tok_keys = {}
    /\ tok_again = <<>>
    /\ pcTok = "idle"

TokStart ==
    /\ tok_value \in TokInputs
    /\ tok_tokens = <<>>
    /\ tok_bag = {}
    /\ tok_keys = {}
    /\ tok_again = <<>>
    /\ pcTok = "start"

\* tokens, token_bag = self._tokenize(field_name_trim)
TokenizeCall ==
    /\ pcTok = "start"
    /\ tok_tokens' = _tokenize(tok_value).tokens
    /\ tok_bag' = _tokenize(tok_value).bag
    /\ pcTok' = "tokenized"
    /\ UNCHANGED <<tok_value, tok_keys, tok_again>>
    /\ UNCHANGED tokFrame

\* 'normalized_keys': self._generate_keys(tokens)
GenerateKeysCall ==
    /\ pcTok = "tokenized"
    /\ tok_keys' = _generate_keys(tok_tokens)
    /\ pcTok' = "keyed"
    /\ UNCHANGED <<tok_value, tok_tokens, tok_bag, tok_again>>
    /\ UNCHANGED tokFrame

\* _tokenize('.'.join(tokens)): the normal form fed back to the tokenizer
RetokenizeCall ==
    /\ pcTok = "keyed"
    /\ tok_again' = _tokenize(StrJoin(tok_tokens, <<".">>)).tokens
    /\ pcTok' = "done"
    /\ UNCHANGED <<tok_value, tok_tokens, tok_bag, tok_keys>>
    /\ UNCHANGED tokFrame


(***************************************************************************)
(* Entity matcher (etn_cdm_upserter.py)                                    *)
(*                                                                         *)
(* A record is referred to by its position in knx_records / etn_records:   *)
(* the code compares records by identity ("match['knx'] is knx_record"),   *)
(* and two rows with the same field name are still two records.  Position  *)
(* 0 stands for None.                                                      *)
(***************************************************************************)
\* knx_extended['field_name_trim'] = field_name.astype(str).str.strip()
KnxRow(field_name) ==
    [field_name |-> field_name, field_name_trim |-> StrStrip(field_name)]

\* etn_mappings['target_field_trim'] = target_field.astype(str).str.strip()
EtnRow(target_field) ==
    [target_field |-> target_field, target_field_trim |-> StrStrip(target_field)]

_prepare_knx_record(row) ==
    LET field_name_trim == StrStrip(row.field_name_trim)
        t == _tokenize(field_name_trim)
    IN  [source            |-> "KNX",
         raw               |-> row,
         field_name_trim   |-> field_name_trim,
         normalized_tokens |-> t.tokens,
         normalized_keys   |-> _generate_keys(t.tokens),
         token_bag         |-> t.bag]

_prepare_etn_record(row) ==
    LET target_field_trim == StrStrip(row.target_field_trim)
        t == _tokenize(target_field_trim)
    IN  [source            |-> "ETN",
         raw               |-> row,
         field_name_trim   |-> target_field_trim,
         normalized_tokens |-> t.tokens,
         normalized_keys   |-> _generate_keys(t.tokens),
         token_bag         |-> t.bag]

\* Mutant: the score without the +15 of a case-folded exact name match.
_score_match_no_exact_bonus(etn_record, knx_record) ==
    LET etn_tokens  == Range(etn_record.normalized_tokens)
        knx_tokens  == Range(knx_record.normalized_tokens)
        overlap     == etn_tokens \cap knx_tokens
        keys_hit    == (etn_record.normalized_keys \cap knx_record.normalized_keys) # {}
        bag_overlap == etn_record.token_bag \cap knx_record.token_bag
    IN  Cardinality(overlap) * 5
          + (IF keys_hit THEN 10 ELSE 0)
          + Cardinality(bag_overlap) * 2

_score_match(etn_record, knx_record) ==
    LET etn_tokens  == Range(etn_record.normalized_tokens)
        knx_tokens  == Range(knx_record.normalized_tokens)
        overlap     == etn_tokens \cap knx_tokens
        keys_hit    == (etn_record.normalized_keys \cap knx_record.normalized_keys) # {}
        bag_overlap == etn_record.token_bag \cap knx_record.token_bag
        exact       == StrLower(etn_record.field_name_trim)
                           = StrLower(knx_record.field_name_trim)
    IN  Cardinality(overlap) * 5
          + (IF keys_hit THEN 10 ELSE 0)
          + Cardinality(bag_overlap) * 2
          + (IF exact THEN 15 ELSE 0)

\* Faulty variant: `score >= best_score`, so the last record of the highest
\* score wins and a record of score 0 can be returned.
RECURSIVE FindBestMatchLoopLastWins(_, _, _, _, _)
FindBestMatchLoopLastWins(etn_record, records, idx, best_score, best_match) ==
    IF idx > Len(records) THEN best_match
    ELSE LET score == _score_match(etn_record, records[idx])
         IN  IF score >= best_score
             THEN FindBestMatchLoopLastWins(etn_record, records, idx + 1, score, idx)
             ELSE FindBestMatchLoopLastWins(etn_record, records, idx + 1, best_score,
                                            best_match)

\* "for knx_record in knx_records" of _find_best_match, from position idx on
RECURSIVE FindBestMatchLoop(_, _, _, _, _)
FindBestMatchLoop(etn_record, records, idx, best_score, best_match) ==
    IF idx > Len(records) THEN best_match
    ELSE LET score == _score_match(etn_record, records[idx])
         IN  IF score > best_score
             THEN FindBestMatchLoop(etn_record, records, idx + 1, score, idx)
             ELSE FindBestMatchLoop(etn_record, records, idx + 1, best_score, best_match)

\* The position of the best KNX record, 0 for None.
_find_best_match(etn_record, records) ==
    FindBestMatchLoop(etn_record, records, 1, 0, 0)

\* Faulty variant: every ETN record counts as matched.
MatchTypeAlwaysMatched(best_match) == "matched"

\* 'match_type': 'matched' if best_match else 'unmatched'
MatchTypeOf(best_match) == IF best_match # 0 THEN "matched" ELSE "unmatched"

\* "for etn_record in etn_records" of _reconcile_table, from position idx on
RECURSIVE ReconcileEtnLoop(_, _, _, _, _)
ReconcileEtnLoop(table_name, knxs, etns, idx, acc) ==
    IF idx > Len(etns) THEN acc
    ELSE LET best_match == _find_best_match(etns[idx], knxs)
             match_payload ==
                 [table_name |-> table_name,
                  etn        |-> idx,
                  knx        |-> best_match,
                  match_type |-> MatchTypeOf(best_match)]
         IN  ReconcileEtnLoop(table_name, knxs, etns, idx + 1, Append(acc, match_payload))

\* "for knx_record in knx_records" of _reconcile_table, from position idx on
RECURSIVE ReconcileKnxLoop(_, _, _, _)
ReconcileKnxLoop(table_name, knxs, idx, acc) ==
    IF idx > Len(knxs) THEN acc
    ELSE IF \E i \in DOMAIN acc : acc[i].knx = idx
    THEN ReconcileKnxLoop(table_name, knxs, idx + 1, acc)
    ELSE ReconcileKnxLoop(table_name, knxs, idx + 1,
             Append(acc, [table_name |-> table_name,
                          etn        |-> 0,
                          knx        |-> idx,
                          match_type |-> "knx_only"]))

_reconcile_table(table_name, knxs, etns) ==
    ReconcileKnxLoop(table_name, knxs, 1,
                     ReconcileEtnLoop(table_name, knxs, etns, 1, <<>>))

\* _determine_match_status (etn_raw and knx_raw are not read)
_determine_match_status(match_type) ==
    IF match_type = "matched" THEN "MATCHED"
    ELSE IF match_type = "knx_only" THEN "KNX_ONLY"
    ELSE "ETN_ONLY"

(***************************************************************************)
(* Matcher driver: one table of _match_records                             *)
(***************************************************************************)
MaxKnx == 2
MaxEtn == 2

RecTable == "Customer"

\* Field names the two sources may carry for the table.
RecNames ==
    {sCustomerName, sCUSTOMERNAME, sName, sSpaceName, sCustomer_Name, sCustomerDotName,
     sOrderValue}

SeqsUpTo(S, n) == UNION {[1..k -> S] : k \in 0..n}

RecIdle ==
    /\ rec_knx_rows = <<>>
    /\ rec_etn_rows = <<>>
    /\ knx_records = <<>>
    /\ etn_records = <<>>
    /\ matches = <<>>
    /\ pcRec = "idle"

RecStart ==
    /\ rec_knx_rows \in SeqsUpTo(RecNames, MaxKnx)
    /\ rec_etn_rows \in SeqsUpTo(RecNames, MaxEtn)
    /\ knx_records = <<>>
    /\ etn_records = <<>>
    /\ matches = <<>>
    /\ pcRec = "start"

\* knx_records = [self._prepare_knx_record(row) for ...]; likewise etn_records
PrepareRecords ==
    /\ pcRec = "start"
    /\ knx_records' = [i \in DOMAIN rec_knx_rows |->
                          _prepare_knx_record(KnxRow(rec_knx_rows[i]))]
    /\ etn_records' = [i \in DOMAIN rec_etn_rows |->
                          _prepare_etn_record(EtnRow(rec_etn_rows[i]))]
    /\ pcRec' = "prepared"
    /\ UNCHANGED <<rec_knx_rows, rec_etn_rows, matches>>
    /\ UNCHANGED recFrame

\* matches = self._reconcile_table(table_name, knx_records, etn_records)
ReconcileTable ==
    /\ pcRec = "prepared"
    /\ matches' = _reconcile_table(RecTable, knx_records, etn_records)
    /\ pcRec' = "done"
    /\ UNCHANGED <<rec_knx_rows, rec_etn_rows, knx_records, etn_records>>
    /\ UNCHANGED recFrame

(***************************************************************************)
(* SAP origin inference (etn_cdm_upserter.py)                              *)
(*                                                                         *)
(* The inference only tests its text arguments for truthiness, so None and *)
(* the empty string are both the empty sequence.  None for a value that is *)
(* not a character sequence is the string "None".                          *)
(***************************************************************************)
None == "None"

hKna1 == <<"k","n","a","1">>
hKnvv == <<"k","n","v","v">>
hMara == <<"m","a","r","a">>
hMarc == <<"m","a","r","c">>
hMbew == <<"m","b","e","w">>
hMakt == <<"m","a","k","t">>
hTvkot == <<"t","v","k","o","t">>
hT438m == <<"t","4","3","8","m">>

SAP_TABLE_HINTS ==
    (hKna1 :> <<"XD03", "Display Customer (General Data)">>)
    @@ (hKnvv :> <<"XD03", "Display Customer (Sales Area Data)">>)
    @@ (hMara :> <<"MM03", "Display Material">>)
    @@ (hMarc :> <<"MM03", "Display Material - Plant Data">>)
    @@ (hMbew :> <<"MM03", "Display Material Valuation">>)
    @@ (hMakt :> <<"MM03", "Display Material Description">>)
    @@ (hTvkot :> <<"VK01", "Maintain Sales Document Types">>)
    @@ (hT438m :> <<"MD04", "Display Stock/Requirements List">>)

\* str.isupper(): some cased character, and no lower-case one
IsUpperStr(s) ==
    /\ \E i \in DOMAIN s : s[i] \in UpperSet
    /\ \A i \in DOMAIN s : s[i] \notin LowerSet

\* str.islower(): some cased character, and no upper-case one
IsLowerStr(s) ==
    /\ \E i \in DOMAIN s : s[i] \in LowerSet
    /\ \A i \in DOMAIN s : s[i] \notin UpperSet

\* The (token_upper, original) pairs of the alphanumeric runs of value.
_tokenize_identifier_parts(value) ==
    IF value = <<>> THEN <<>>
    ELSE LET parts == SplitOn(value, CharSet \ AlnumSet)
         IN  [i \in DOMAIN parts |->
                 [token_upper |-> StrUpper(StrStrip(parts[i])),
                  original    |-> StrStrip(parts[i])]]

_is_valid_identifier(token) ==
    /\ token # <<>>
    /\ Len(token) >= 3
    /\ \A i \in DOMAIN token : token[i] \in UpperSet \cup DigitSet

\* The two tests both loops of _select_sap_table apply to a token.
QualifiesAsIdentifier(tok) ==
    /\ _is_valid_identifier(tok.token_upper)
    /\ (IsUpperStr(tok.original) \/ IsLowerStr(tok.original))

\* The (label, token) pairs in the order the nested loops visit them.
RECURSIVE LabelledTokens(_, _)
LabelledTokens(sources, idx) ==
    IF idx > Len(sources) THEN <<>>
    ELSE LET tokens == _tokenize_identifier_parts(sources[idx].value)
         IN  [i \in DOMAIN tokens |->
                 [label |-> sources[idx].label, tok |-> tokens[i]]]
             \o LabelledTokens(sources, idx + 1)

\* _select_sap_table -> (table token, label of its source, confident)
_select_sap_table(sources) ==
    LET visited    == LabelledTokens(sources, 1)
        qualifying == SelectSeq(visited, LAMBDA lt : QualifiesAsIdentifier(lt.tok))
        hinted     == SelectSeq(qualifying,
                          LAMBDA lt : StrLower(lt.tok.token_upper) \in DOMAIN SAP_TABLE_HINTS)
    IN  IF hinted # <<>>
        THEN [table |-> hinted[1].tok.token_upper, source |-> hinted[1].label,
              confident |-> TRUE]
        ELSE IF qualifying # <<>>
        THEN [table |-> qualifying[1].tok.token_upper, source |-> qualifying[1].label,
              confident |-> FALSE]
        ELSE [table |-> <<>>, source |-> None, confident |-> FALSE]

RECURSIVE CollectValidTokens(_, _)
CollectValidTokens(values, idx) ==
    IF idx > Len(values) THEN {}
    ELSE {t.token_upper : t \in
             {x \in Range(_tokenize_identifier_parts(values[idx])) :
                 _is_valid_identifier(x.token_upper)}}
         \cup CollectValidTokens(values, idx + 1)

_collect_maestro_tokens(values) == CollectValidTokens(values, 1)

Max(a, b) == IF a >= b THEN a ELSE b

\* Faulty variant: the score without the bonus of an early position.
FieldTokenScoreNoPosition(tok, idx, maestro_tokens) ==
    (IF IsUpperStr(tok.original) THEN 5
     ELSE IF IsLowerStr(tok.original) THEN 3
     ELSE 0)
    + (IF \E i \in DOMAIN tok.original : tok.original[i] \in DigitSet THEN 1 ELSE 0)
    + (IF maestro_tokens # {} /\ tok.token_upper \in maestro_tokens THEN 1 ELSE 0)

\* The score _select_sap_field gives the token at 0-based position idx.
FieldTokenScore(tok, idx, maestro_tokens) ==
    (IF IsUpperStr(tok.original) THEN 5
     ELSE IF IsLowerStr(tok.original) THEN 3
     ELSE IF tok.original[1] \in UpperSet
             /\ IsLowerStr(SubSeq(tok.original, 2, Len(tok.original))) THEN 0 - 2
     ELSE 0)
    + (IF \E i \in DOMAIN tok.original : tok.original[i] \in DigitSet THEN 1 ELSE 0)
    + Max(0, 3 - idx)
    + (IF maestro_tokens # {} /\ tok.token_upper \in maestro_tokens THEN 1 ELSE 0)

\* "for idx, (token_upper, original) in enumerate(tokens)", from position
\* pos on (pos is 1-based, idx = pos - 1); best_token <<>> is None.
RECURSIVE SelectSapFieldLoop(_, _, _, _, _, _)
SelectSapFieldLoop(tokens, pos, primary_table_upper, maestro_tokens, best_token, best_score) ==
    IF pos > Len(tokens) THEN best_token
    ELSE LET tok   == tokens[pos]
             score == FieldTokenScore(tok, pos - 1, maestro_tokens)
         IN  IF \/ ~_is_valid_identifier(tok.token_upper)
                \/ (primary_table_upper # <<>> /\ tok.token_upper = primary_table_upper)
                \/ ~(IsUpperStr(tok.original) \/ IsLowerStr(tok.original))
             THEN SelectSapFieldLoop(tokens, pos + 1, primary_table_upper,
                                     maestro_tokens, best_token, best_score)
             ELSE IF best_token = <<>> \/ score > best_score
             THEN SelectSapFieldLoop(tokens, pos + 1, primary_table_upper,
                                     maestro_tokens, tok.token_upper, score)
             ELSE SelectSapFieldLoop(tokens, pos + 1, primary_table_upper,
                                     maestro_tokens, best_token, best_score)

\* _select_sap_field -> (field token, label of its source)
_select_sap_field(primary_table, source_field, maestro_field_name, maestro_field_description, maestro_table_name) ==
    LET tokens == _tokenize_identifier_parts(source_field)
        best   == SelectSapFieldLoop(
                      tokens, 1, StrUpper(primary_table),
                      _collect_maestro_tokens(<<maestro_field_name,
                                                maestro_field_description,
                                                maestro_table_name>>),
                      <<>>, 0)
    IN  IF tokens = <<>> THEN [token |-> <<>>, source |-> ""]
        ELSE IF best # <<>> THEN [token |-> best, source |-> "source_field"]
        ELSE [token |-> <<>>, source |-> ""]

\* f'{table_source}_table_inferred'
TableInferredLabel(table_source) ==
    CASE table_source = "maestro_field_name" -> "maestro_field_name_table_inferred"
      [] table_source = "source_field" -> "source_field_table_inferred"
      [] table_source = "maestro_field_description" ->
             "maestro_field_description_table_inferred"
      [] table_source = "maestro_table_name" -> "maestro_table_name_table_inferred"
      [] table_source = "primary_table_name" -> "primary_table_name_table_inferred"

\* The order in which _derive_sap_strategy hands its texts to _select_sap_table.
SapTableSources(primary_table, source_field, maestro_field_name, maestro_field_description, maestro_table_name) ==
    <<[label |-> "maestro_field_name", value |-> maestro_field_name],
      [label |-> "source_field", value |-> source_field],
      [label |-> "maestro_field_description", value |-> maestro_field_description],
      [label |-> "maestro_table_name", value |-> maestro_table_name],
      [label |-> "primary_table_name", value |-> primary_table]>>

\* _derive_sap_strategy.  strategy is the list of the parts that the code
\* joins with '+' (no part holds a '+'); <<>> is the strategy None.
_derive_sap_strategy(primary_table, source_field, maestro_field_name, maestro_field_description, maestro_table_name) ==
    IF primary_table = <<>> /\ source_field = <<>>
    THEN [erp_tcode |-> None, erp_screen_name |-> None,
          erp_screen_field_name |-> <<>>, strategy |-> <<>>]
    ELSE LET sel == _select_sap_table(
                        SapTableSources(primary_table, source_field, maestro_field_name,
                                        maestro_field_description, maestro_table_name))
             hint == IF sel.table # <<>> /\ StrLower(sel.table) \in DOMAIN SAP_TABLE_HINTS
                     THEN SAP_TABLE_HINTS[StrLower(sel.table)]
                     ELSE <<None, None>>
             table_parts ==
                 IF sel.table # <<>>
                 THEN <<TableInferredLabel(sel.source)>>
                          \o (IF sel.confident THEN <<"hint_confident">> ELSE <<>>)
                 ELSE <<>>
             fld == _select_sap_field(sel.table, source_field, maestro_field_name,
                                      maestro_field_description, maestro_table_name)
             strategy_parts ==
                 table_parts \o (IF fld.token # <<>>
                                 THEN <<"source_field_field_inferred">> ELSE <<>>)
         IN  [erp_tcode |-> hint[1],
              erp_screen_name |-> hint[2],
              erp_screen_field_name |-> fld.token,
              strategy |-> IF strategy_parts # <<>> THEN strategy_parts
                           ELSE <<"insufficient_source_metadata">>]

(***************************************************************************)
(* SAP inference driver: the arguments _assemble_etn_row passes            *)
(***************************************************************************)
sKNA1 == <<"K","N","A","1">>
sKna1 == <<"K","n","a","1">>
sMARA == <<"M","A","R","A">>
sZTAB == <<"Z","T","A","B">>
sKUNNR == <<"K","U","N","N","R">>
skunnr == <<"k","u","n","n","r">>
sKNA1_KUNNR == <<"K","N","A","1","-","K","U","N","N","R">>
sMATNR_MARA == <<"M","A","T","N","R"," ","M","A","R","A">>
sSeeMara == <<"s","e","e"," ","m","a","r","a">>
sCustomerNumber == <<"C","u","s","t","o","m","e","r"," ","n","u","m","b","e","r">>
sCustomer == <<"C","u","s","t","o","m","e","r">>
sMARC == <<"M","A","R","C">>
sID == <<"I","D">>
sWerksMatnr == <<"w","e","r","k","s"," ","M","A","T","N","R">>
sMat1Werks == <<"m","a","t","1"," ","W","E","R","K","S">>

SapPrimaryTables == {<<>>, sKNA1, hKna1, sKna1, sMARA, sZTAB}
SapSourceFields ==
    {<<>>, sKUNNR, skunnr, sKNA1_KUNNR, sMATNR_MARA, sID, sWerksMatnr, sMat1Werks}
SapMaestroFieldNames == {<<>>, sCustomerName, sName, sKUNNR, sMARA}
SapMaestroDescriptions == {<<>>, sCustomerNumber, sSeeMara}
SapMaestroTableNames == {sCustomer, sMARC}

SapIdle ==
    /\ sap_in = <<>>
    /\ sap_out = <<>>
    /\ pcSap = "idle"

SapStart ==
    /\ sap_in \in [primary_table : SapPrimaryTables,
                   source_field : SapSourceFields,
                   maestro_field_name : SapMaestroFieldNames,
                   maestro_field_description : SapMaestroDescriptions,
                   maestro_table_name : SapMaestroTableNames]
    /\ sap_out = <<>>
    /\ pcSap = "start"

\* sap_strategy = self._derive_sap_strategy(...)
DeriveSapStrategy ==
    /\ pcSap = "start"
    /\ sap_out' = _derive_sap_strategy(sap_in.primary_table, sap_in.source_field,
                                       sap_in.maestro_field_name,
                                       sap_in.maestro_field_description,
                                       sap_in.maestro_table_name)
    /\ pcSap' = "done"
    /\ UNCHANGED sap_in
    /\ UNCHANGED sapFrame

(***************************************************************************)
(* Field category (export_to_excel.py)                                     *)
(***************************************************************************)
CRITICAL_NAME_SUBSTRINGS ==
    << <<"N","a","m","e">>, <<"S","i","t","e">>, <<"D","a","t","e">>,
       <<"L","e","a","d","T","i","m","e">>, <<"N","u","m","b","e","r">> >>

\* Python's "sub in s" for strings
Contains(s, sub) ==
    \E i \in 1..(Len(s) - Len(sub) + 1) : SubSeq(s, i, i + Len(sub) - 1) = sub

sMATCHED == <<"M","A","T","C","H","E","D">>
sETN_ONLY == <<"E","T","N","_","O","N","L","Y">>
sKNX_ONLY == <<"K","N","X","_","O","N","L","Y">>

\* Mutant: the ETN_ONLY test made before the key test.
_determine_field_category_status_first(row) ==
    LET maestro_is_key == row.maestro_is_key
        match_status == StrUpper(StrStrip(row.match_status))
        maestro_field_name == row.maestro_field_name
    IN  IF match_status = sETN_ONLY THEN "Optional/Reference"
        ELSE IF maestro_is_key THEN "Identifier"
        ELSE IF \/ \E i \in DOMAIN CRITICAL_NAME_SUBSTRINGS :
                       Contains(maestro_field_name, CRITICAL_NAME_SUBSTRINGS[i])
                \/ Contains(maestro_field_name, <<"L","T">>)
        THEN "Critical"
        ELSE IF match_status = sMATCHED THEN "Functional Enabler"
        ELSE None

\* _determine_field_category(row); "Maestro Is Key" is the boolean column
\* _prepare_etn_cdm has normalised, a missing "Match Status" is <<>>.
_determine_field_category(row) ==
    LET maestro_is_key == row.maestro_is_key
        match_status == StrUpper(StrStrip(row.match_status))
        maestro_field_name == row.maestro_field_name
    IN  IF maestro_is_key THEN "Identifier"
        ELSE IF match_status = sETN_ONLY THEN "Optional/Reference"
        ELSE IF \/ \E i \in DOMAIN CRITICAL_NAME_SUBSTRINGS :
                       Contains(maestro_field_name, CRITICAL_NAME_SUBSTRINGS[i])
                \/ Contains(maestro_field_name, <<"L","T">>)
        THEN "Critical"
        ELSE IF match_status = sMATCHED THEN "Functional Enabler"
        ELSE None

(***************************************************************************)
(* Field category driver: the rows of the exported frame                   *)
(***************************************************************************)
sEtnOnlyLoose == <<"e","t","n","_","o","n","l","y"," ">>
sOrderDate == <<"O","r","d","e","r","D","a","t","e">>
sQty == <<"Q","t","y">>
sMfgLT == <<"M","f","g","L","T">>
sPartName == <<"P","a","r","t","N","a","m","e">>
sLowerName == <<"n","a","m","e">>
sSiteId == <<"S","i","t","e","I","d">>
sLeadTime == <<"L","e","a","d","T","i","m","e">>
sPartNumber == <<"P","a","r","t","N","u","m","b","e","r">>
sDescription == <<"D","e","s","c","r","i","p","t","i","o","n">>
sALTERNATE == <<"A","L","T","E","R","N","A","T","E">>

CatStatuses == {sMATCHED, sETN_ONLY, sKNX_ONLY, sEtnOnlyLoose, <<>>}

CatFieldNames ==
    {<<>>, sOrderDate, sQty, sMfgLT, sPartName, sLowerName, sSiteId, sLeadTime,
     sPartNumber, sDescription, sALTERNATE}

CatIdle ==
    /\ cat_row = <<>>
    /\ cat_out = None
    /\ pcCat = "idle"

CatStart ==
    /\ cat_row \in [maestro_is_key : BOOLEAN,
                    match_status : CatStatuses,
                    maestro_field_name : CatFieldNames]
    /\ cat_out = None
    /\ pcCat = "start"

\* etn_cdm_df["Field Category"] = etn_cdm_df.apply(self._determine_field_category)
DetermineFieldCategory ==
    /\ pcCat = "start"
    /\ cat_out' = _determine_field_category(cat_row)
    /\ pcCat' = "done"
    /\ UNCHANGED cat_row
    /\ UNCHANGED catFrame

(***************************************************************************)
(* Reference expansion (extend_knx_doc.py; export_to_database.py holds the *)
(* same function as a module-level copy)                                   *)
(*                                                                         *)
(* A schema is the contents of knx_doc_tables and knx_doc_columns.  A      *)
(* table's id is its position in tables; referenced_table_id 0 is NULL.    *)
(* A dotted path is the list of its segments: no table or field name of    *)
(* the model holds a '.', so '.'.join and split('.') are inverse here.     *)
(***************************************************************************)
sReference == <<"R","e","f","e","r","e","n","c","e">>
sString == <<"S","t","r","i","n","g">>
sreference == <<"r","e","f","e","r","e","n","c","e">>

TableNames == <<"T1", "T2", "T3", "T4", "T5", "T6", "T7", "T8", "T9", "T10">>

\* Field names in the order ORDER BY c.field_name puts them.
FieldNameOrder == <<"Alt", "F", "Id", "Name", "Next", "Ref">>

NameRank(field_name) ==
    CHOOSE i \in DOMAIN FieldNameOrder : FieldNameOrder[i] = field_name

\* One row of knx_doc_columns before its id is assigned.
Column(table_id, field_name, description, data_type, is_key, is_calculated, referenced_table_id, display_on_export) ==
    [table_id |-> table_id, field_name |-> field_name, description |-> description,
     data_type |-> data_type, is_key |-> is_key, is_calculated |-> is_calculated,
     referenced_table_id |-> referenced_table_id,
     display_on_export |-> display_on_export]

\* insert_table_data: ids are assigned in insertion order; created_at follows.
WithIds(cols) ==
    [i \in DOMAIN cols |->
        [id |-> i, created_at |-> i,
         table_id |-> cols[i].table_id, field_name |-> cols[i].field_name,
         description |-> cols[i].description, data_type |-> cols[i].data_type,
         is_key |-> cols[i].is_key, is_calculated |-> cols[i].is_calculated,
         referenced_table_id |-> cols[i].referenced_table_id,
         display_on_export |-> cols[i].display_on_export]]

Abs(v) == IF v < 0 THEN 0 - v ELSE v

\* The columns of table t in a generated schema: a reference "Ref" to table
\* |ref| (calculated when ref < 0, absent when ref = 0), an exported "Name",
\* a key "Id" (is_key 'True' and not exported in table 1, 'Yes' and exported
\* elsewhere), and a second reference "Alt" to table alt.
GeneratedColumns(t, ref, alt) ==
    (IF ref # 0
     THEN <<Column(t, "Ref", <<>>, sReference, "No", ref < 0, Abs(ref), TRUE)>>
     ELSE <<>>)
    \o <<Column(t, "Name", sSpaceName, sString, "No", FALSE, 0, TRUE)>>
    \o <<IF t = 1
         THEN Column(t, "Id", <<>>, sString, "True", FALSE, 0, FALSE)
         ELSE Column(t, "Id", <<>>, sString, "Yes", FALSE, 0, TRUE)>>
    \o (IF alt # 0
        THEN <<Column(t, "Alt", <<>>, sreference, "No", FALSE, alt, TRUE)>>
        ELSE <<>>)

RECURSIVE GeneratedColumnsFrom(_, _, _, _)
GeneratedColumnsFrom(t, n, refTo, alt) ==
    IF t > n THEN <<>>
    ELSE GeneratedColumns(t, refTo[t], IF t = 1 THEN alt ELSE 0)
             \o GeneratedColumnsFrom(t + 1, n, refTo, alt)

GeneratedSchema(n, refTo, alt) ==
    [tables  |-> [t \in 1..n |-> [name |-> TableNames[t], display_on_export |-> TRUE]],
     columns |-> WithIds(GeneratedColumnsFrom(1, n, refTo, alt))]

NumTables == 2

GeneratedSchemas ==
    {GeneratedSchema(NumTables, refTo, alt) :
        refTo \in [1..NumTables -> (0 - NumTables)..NumTables], alt \in 0..NumTables}

\* A chain of 7 reference hops: Ti.Next -> T(i+1) for i = 1..7, and a plain
\* exported field F in every table.
ChainHops == 7

RECURSIVE ChainColumnsFrom(_)
ChainColumnsFrom(t) ==
    IF t > ChainHops + 1 THEN <<>>
    ELSE (IF t <= ChainHops
          THEN <<Column(t, "Next", <<>>, sReference, "No", FALSE, t + 1, TRUE)>>
          ELSE <<>>)
         \o <<Column(t, "F", <<>>, sString, "No", FALSE, 0, TRUE)>>
         \o ChainColumnsFrom(t + 1)

ChainSchema ==
    [tables  |-> [t \in 1..(ChainHops + 1) |->
                     [name |-> TableNames[t], display_on_export |-> TRUE]],
     columns |-> WithIds(ChainColumnsFrom(1))]

\* LEFT JOIN knx_doc_tables ON ... = id: the table's name, None without a match
TableNameOf(schema, table_id) ==
    IF table_id \in DOMAIN schema.tables THEN schema.tables[table_id].name ELSE None

\* ORDER BY CASE WHEN is_calculated THEN 1 ELSE 0 END,
\*          CASE WHEN LOWER(is_key) = 'yes' THEN 0 ELSE 1 END, field_name
OrderedBefore(a, b) ==
    LET ca == IF a.is_calculated THEN 1 ELSE 0
        cb == IF b.is_calculated THEN 1 ELSE 0
        ka == IF a.is_key \in {"Yes", "yes", "YES"} THEN 0 ELSE 1
        kb == IF b.is_key \in {"Yes", "yes", "YES"} THEN 0 ELSE 1
    IN  \/ ca < cb
        \/ (ca = cb /\ ka < kb)
        \/ (ca = cb /\ ka = kb /\ NameRank(a.field_name) < NameRank(b.field_name))

\* The set rows as a list in that order: a row comes at position i when
\* i - 1 rows are ordered before it (a table has no two columns of one name).
OrderRows(rows) ==
    [i \in 1..Cardinality(rows) |->
        CHOOSE r \in rows : Cardinality({q \in rows : OrderedBefore(q, r)}) = i - 1]

\* One row of the ref_fields_df query for the column c.
RefFieldRow(schema, c) ==
    [field_name |-> c.field_name, description |-> c.description,
     data_type |-> c.data_type, is_key |-> c.is_key,
     is_calculated |-> c.is_calculated,
     referenced_table_id |-> c.referenced_table_id,
     ref_referenced_table |-> TableNameOf(schema, c.referenced_table_id)]

\* The ref_fields_df query of _expand_reference_recursively.
RefFieldsQuery(schema, referenced_table_id) ==
    OrderRows({RefFieldRow(schema, c) :
                  c \in {c \in Range(schema.columns) :
                             /\ c.table_id = referenced_table_id
                             /\ (c.display_on_export \/ c.is_key = "True")}})

\* One row of the base query of _fetch_base_columns (the query's ORDER BY
\* plays no part in the expansion of a single row).
BaseRow(schema, c) ==
    [id |-> c.id, table_id |-> c.table_id,
     table_name |-> TableNameOf(schema, c.table_id),
     field_name |-> c.field_name, description |-> c.description,
     data_type |-> c.data_type, is_key |-> c.is_key,
     is_calculated |-> c.is_calculated,
     referenced_table |-> TableNameOf(schema, c.referenced_table_id),
     is_extended |-> FALSE,
     display_on_export |-> (/\ c.table_id \in DOMAIN schema.tables
                            /\ schema.tables[c.table_id].display_on_export
                            /\ c.display_on_export),
     created_at |-> c.created_at,
     referenced_table_id |-> c.referenced_table_id]

_is_expandable_reference(row) ==
    /\ row.data_type # <<>>
    /\ StartsWith(StrLower(row.data_type), sreference)
    /\ row.referenced_table_id # 0
    /\ ~row.is_calculated

\* root_field_props of _build_final_rows
RootFieldProps(row) ==
    [table_id |-> row.table_id, table_name |-> row.table_name,
     is_key |-> row.is_key, display_on_export |-> row.display_on_export,
     created_at |-> row.created_at, field_name |-> row.field_name,
     referenced_table |-> row.referenced_table,
     root_description |-> row.description]

\* initial_path = f"{row['table_name']}.{referenced_name}"
InitialPath(row) ==
    <<row.table_name,
      IF row.referenced_table # None THEN row.referenced_table ELSE row.field_name>>

\* row.to_dict() as the field_info of the root call: it has no
\* 'ref_referenced_table' key, so .get gives None.
RootFieldInfo(row) ==
    [field_name |-> row.field_name, description |-> row.description,
     data_type |-> row.data_type, is_key |-> row.is_key,
     is_calculated |-> row.is_calculated,
     referenced_table_id |-> row.referenced_table_id,
     ref_referenced_table |-> None]

\* _clean_description
_clean_description(value) == StrStrip(value)

\* Mutant: the two early returns are missing.
ExpandBranchNoGuards(field_info, visited_tables, max_depth) ==
    IF \/ field_info.data_type = <<>>
       \/ ~StartsWith(StrLower(field_info.data_type), sreference)
       \/ field_info.is_calculated
       \/ field_info.referenced_table_id = 0
    THEN "terminal"
    ELSE "expand"

\* Mutant: the depth test is missing.
ExpandBranchNoDepth(field_info, visited_tables, max_depth) ==
    IF field_info.referenced_table_id \in visited_tables THEN "cycle"
    ELSE ExpandBranchNoGuards(field_info, visited_tables, max_depth)

\* Which way a call of _expand_reference_recursively goes: the two early
\* returns, the terminal field, or the expansion of the referenced table.
ExpandBranch(field_info, visited_tables, max_depth) ==
    IF max_depth <= 0 THEN "depth"
    ELSE IF field_info.referenced_table_id \in visited_tables THEN "cycle"
    ELSE IF \/ field_info.data_type = <<>>
            \/ ~StartsWith(StrLower(field_info.data_type), sreference)
            \/ field_info.is_calculated
            \/ field_info.referenced_table_id = 0
    THEN "terminal"
    ELSE "expand"

\* Faulty variant: the key flag is read from the field itself.
InheritedContextOwnKey(field_info, root_field_props) ==
    [table_id |-> root_field_props.table_id,
     table_name |-> root_field_props.table_name,
     is_key |-> field_info.is_key,
     display_on_export |-> root_field_props.display_on_export,
     created_at |-> root_field_props.created_at]

\* The values the terminal dict takes from root_field_props.
InheritedContext(field_info, root_field_props) ==
    [table_id |-> root_field_props.table_id,
     table_name |-> root_field_props.table_name,
     is_key |-> root_field_props.is_key,
     display_on_export |-> root_field_props.display_on_export,
     created_at |-> root_field_props.created_at]

\* Faulty variant: the indentation is missing.
ExtendedFieldNameBare(display_segments) ==
    [indent |-> "", path |-> display_segments]

\* 'field_name': f"    {display_path}": the blanks before the display
\* path, and the segments that '.'.join puts together.
ExtendedFieldName(display_segments) ==
    [indent |-> "    ", path |-> display_segments]

\* The dict of the terminal return.  'id' is f"extended_{current_path}",
\* 'field_name' is four blanks followed by the dotted display path, and
\* 'description' joins the root description and "[From <origin_table>]
\* <origin description>" with a blank line, leaving out an empty root part.
TerminalField(field_info, current_path, root_field_props) ==
    LET path_parts == current_path
        origin_table == IF Len(path_parts) >= 2
                        THEN path_parts[Len(path_parts) - 1] ELSE "Unknown"
        segments == IF Len(path_parts) > 1 THEN Tail(path_parts) ELSE path_parts
        root_field_name == root_field_props.field_name
        root_referenced_table == root_field_props.referenced_table
        display_segments ==
            IF /\ root_field_name # ""
               /\ root_referenced_table # None
               /\ root_field_name # root_referenced_table
               /\ (segments = <<>> \/ segments[1] # root_field_name)
            THEN <<root_field_name>> \o segments
            ELSE segments
        context == InheritedContext(field_info, root_field_props)
    IN  [id |-> [prefix |-> "extended_", path |-> current_path],
         table_id |-> context.table_id,
         table_name |-> context.table_name,
         field_name |-> ExtendedFieldName(display_segments),
         description |->
             [root_description |-> _clean_description(root_field_props.root_description),
              origin_table |-> origin_table,
              origin_description |-> _clean_description(field_info.description)],
         data_type |-> field_info.data_type,
         is_key |-> context.is_key,
         is_calculated |-> field_info.is_calculated,
         referenced_table |-> field_info.ref_referenced_table,
         is_extended |-> TRUE,
         display_on_export |-> context.display_on_export,
         created_at |-> context.created_at]

\* Mutant: the depth and cycle returns hand back the field as a terminal field.
EarlyReturnValueAsTerminal(field_info, current_path, root_field_props) ==
    <<TerminalField(field_info, current_path, root_field_props)>>

\* What the two early returns ("return []") hand back.
EarlyReturnValue(field_info, current_path, root_field_props) == <<>>

\* The list a call of _expand_reference_recursively returns, as a function of
\* its arguments and the schema.
RECURSIVE ExpandedFields(_, _, _, _, _, _)
RECURSIVE ExpandedFieldsFrom(_, _, _, _, _, _, _)
ExpandedFields(schema, field_info, current_path, visited_tables, max_depth, props) ==
    LET branch == ExpandBranch(field_info, visited_tables, max_depth)
    IN  IF branch \in {"depth", "cycle"}
        THEN EarlyReturnValue(field_info, current_path, props)
        ELSE IF branch = "terminal"
        THEN <<TerminalField(field_info, current_path, props)>>
        ELSE ExpandedFieldsFrom(schema,
                 RefFieldsQuery(schema, field_info.referenced_table_id), 1,
                 current_path, visited_tables \cup {field_info.referenced_table_id},
                 max_depth, props)

\* The loop over ref_fields_df from row i on.
ExpandedFieldsFrom(schema, ref_fields, i, current_path, new_visited, max_depth, props) ==
    IF i > Len(ref_fields) THEN <<>>
    ELSE ExpandedFields(schema, ref_fields[i],
                        current_path \o <<ref_fields[i].field_name>>,
                        new_visited, max_depth - 1, props)
         \o ExpandedFieldsFrom(schema, ref_fields, i + 1, current_path, new_visited,
                               max_depth, props)

\* Faulty variant: new_visited is the caller's set itself, not a copy.
VisitedAfterAddShared(visited_tables, referenced_table_id) ==
    visited_tables \cup {referenced_table_id}

\* What the set object passed as visited_tables holds after
\* "new_visited = visited_tables.copy(); new_visited.add(referenced_table_id)":
\* the add goes to the copy.
VisitedAfterAdd(visited_tables, referenced_table_id) == visited_tables

\* An activation of _expand_reference_recursively.  visited_tables is the
\* set object the caller passed (the caller's new_visited, or the root's
\* set()), new_visited the activation's own set object.
Frame(field_info, current_path, visited_tables, max_depth) ==
    [field_info |-> field_info, current_path |-> current_path,
     visited_tables |-> visited_tables, max_depth |-> max_depth,
     at |-> "entry", new_visited |-> {}, ref_fields |-> <<>>, idx |-> 1,
     extended_fields |-> <<>>]

\* base_row = row.to_dict(); base_row['is_extended'] = bool(base_row.get(...))
BaseRowDict(row) == [row EXCEPT !.is_extended = (row.is_extended = TRUE)]

\* The decimal digits of n, most significant first.
RECURSIVE Digits(_)
Digits(n) == IF n < 10 THEN <<n>> ELSE Digits(n \div 10) \o <<n % 10>>

SequenceWidth == 6

\* f"{sequence:06d}": the digits, padded on the left with zeros to the
\* width; a longer number is not cut.
FormatSequence(sequence) ==
    LET ds == Digits(sequence)
    IN  IF Len(ds) >= SequenceWidth THEN ds
        ELSE [i \in 1..(SequenceWidth - Len(ds)) |-> 0] \o ds

\* float(f"{original_id}.{sequence:06d}"): the number with whole part
\* original_id whose fraction has the digits of the formatted sequence
\* (exact for the ids of the model: they are far below 2^53 / 10^7).
DecimalId(original_id, sequence) ==
    [whole |-> original_id, frac |-> FormatSequence(sequence)]

\* Order of two fractions given by their digits.
FracLess(a, b) ==
    LET n == IF Len(a) > Len(b) THEN Len(a) ELSE Len(b)
        da == [i \in 1..n |-> IF i <= Len(a) THEN a[i] ELSE 0]
        db == [i \in 1..n |-> IF i <= Len(b) THEN b[i] ELSE 0]
    IN  \E k \in 1..n : da[k] < db[k] /\ \A i \in 1..(k - 1) : da[i] = db[i]

\* x < y for decimal ids.
IdLess(x, y) ==
    \/ x.whole < y.whole
    \/ (x.whole = y.whole /\ FracLess(x.frac, y.frac))

\* extended_sequence.get(original_id, 0)
SequenceOf(extended_sequence, original_id) ==
    IF original_id \in DOMAIN extended_sequence THEN extended_sequence[original_id]
    ELSE 0

(***************************************************************************)
(* Expansion driver: one root reference field of _build_final_rows, the    *)
(* recursion run as a stack of activations                                 *)
(***************************************************************************)
MaxDepthArg == 3

DefaultMaxDepth == 5

\* The interpreter's recursion limit (sys.getrecursionlimit), scaled down:
\* a call made at this depth raises RecursionError.
RecursionLimit == 12

ExpIdle ==
    /\ exp_schema = <<>>
    /\ exp_max_depth = 0
    /\ exp_root = <<>>
    /\ exp_stack = <<>>
    /\ exp_return = <<>>
    /\ exp_result = <<>>
    /\ exp_log = {}
    /\ exp_final_rows = <<>>
    /\ exp_sequence = <<>>
    /\ pcExp = "idle"

ExpStart ==
    /\ \/ exp_schema \in GeneratedSchemas /\ exp_max_depth \in 0..MaxDepthArg
       \/ exp_schema = ChainSchema
            /\ exp_max_depth \in (0..MaxDepthArg) \cup {DefaultMaxDepth}
    /\ \E i \in DOMAIN exp_schema.columns :
           /\ exp_root = BaseRow(exp_schema, exp_schema.columns[i])
           /\ _is_expandable_reference(exp_root)
    /\ exp_stack = <<>>
    /\ exp_return = <<>>
    /\ exp_result = <<>>
    /\ exp_log = {}
    /\ exp_final_rows = <<>>
    /\ exp_sequence = <<>>
    /\ pcExp = "start"

Top == exp_stack[Len(exp_stack)]

\* The running activation returns value: it is handed to the caller's
\* "extended_fields.extend(sub_extended)", or is the result of the root call.
\* The caller's new_visited is the set object the activation was passed.
Return(branch, value) ==
    /\ exp_return' = [branch |-> branch, value |-> value,
                      field_info |-> Top.field_info,
                      current_path |-> Top.current_path,
                      visited_tables |-> Top.visited_tables,
                      max_depth |-> Top.max_depth]
    /\ IF Len(exp_stack) = 1
       THEN /\ exp_stack' = <<>>
            /\ exp_result' = value
            /\ pcExp' = "done"
       ELSE LET caller == exp_stack[Len(exp_stack) - 1]
            IN  /\ exp_stack' =
                       [SubSeq(exp_stack, 1, Len(exp_stack) - 1)
                           EXCEPT ![Len(exp_stack) - 1] =
                               [caller EXCEPT
                                   !.new_visited = Top.visited_tables,
                                   !.extended_fields = caller.extended_fields \o value,
                                   !.idx = caller.idx + 1]]
                /\ UNCHANGED <<exp_result, pcExp>>

\* base_row = row.to_dict(); base_row['is_extended'] = bool(...);
\* final_rows.append(base_row);
\* recursive_extended = self._expand_reference_recursively(
\*     row.to_dict(), initial_path, set(), self.max_depth, root_field_props)
ExpandRootCall ==
    /\ pcExp = "start"
    /\ exp_stack' = <<Frame(RootFieldInfo(exp_root), InitialPath(exp_root), {},
                            exp_max_depth)>>
    /\ exp_final_rows' = Append(exp_final_rows, BaseRowDict(exp_root))
    /\ pcExp' = "running"
    /\ UNCHANGED <<exp_schema, exp_max_depth, exp_root, exp_return, exp_result, exp_log,
                   exp_sequence>>
    /\ UNCHANGED expFrame

AtEntry(branch) ==
    /\ pcExp = "running"
    /\ exp_stack # <<>>
    /\ Top.at = "entry"
    /\ ExpandBranch(Top.field_info, Top.visited_tables, Top.max_depth) = branch

\* if max_depth <= 0: return []
ExpandDepthReached ==
    /\ AtEntry("depth")
    /\ exp_log' = exp_log \cup {"Max depth reached"}
    /\ Return("depth", EarlyReturnValue(Top.field_info, Top.current_path,
                                        RootFieldProps(exp_root)))
    /\ UNCHANGED <<exp_schema, exp_max_depth, exp_root, exp_final_rows, exp_sequence>>
    /\ UNCHANGED expFrame

\* if referenced_table_id in visited_tables: return []
ExpandCycleDetected ==
    /\ AtEntry("cycle")
    /\ exp_log' = exp_log \cup {"Cycle detected"}
    /\ Return("cycle", EarlyReturnValue(Top.field_info, Top.current_path,
                                        RootFieldProps(exp_root)))
    /\ UNCHANGED <<exp_schema, exp_max_depth, exp_root, exp_final_rows, exp_sequence>>
    /\ UNCHANGED expFrame

\* the field is no expandable reference: return [{...}]
ExpandTerminal ==
    /\ AtEntry("terminal")
    /\ Return("terminal", <<TerminalField(Top.field_info, Top.current_path,
                                          RootFieldProps(exp_root))>>)
    /\ UNCHANGED <<exp_schema, exp_max_depth, exp_root, exp_final_rows, exp_sequence, exp_log>>
    /\ UNCHANGED expFrame

\* new_visited = visited_tables.copy(); new_visited.add(referenced_table_id);
\* ref_fields_df = self.con.execute(...).fetchdf()
ExpandFetchRefFields ==
    /\ AtEntry("expand")
    /\ exp_stack' =
           [exp_stack EXCEPT ![Len(exp_stack)] =
               [Top EXCEPT
                   !.at = "loop",
                   !.visited_tables =
                       VisitedAfterAdd(Top.visited_tables,
                                       Top.field_info.referenced_table_id),
                   !.new_visited = Top.visited_tables
                                       \cup {Top.field_info.referenced_table_id},
                   !.ref_fields = RefFieldsQuery(exp_schema,
                                                 Top.field_info.referenced_table_id),
                   !.idx = 1]]
    /\ UNCHANGED <<exp_schema, exp_max_depth, exp_root, exp_final_rows, exp_sequence, exp_return, exp_result,
                   exp_log, pcExp>>
    /\ UNCHANGED expFrame

\* for _, ref_field in ref_fields_df.iterrows():
\*     sub_extended = self._expand_reference_recursively(
\*         ref_field.to_dict(), new_path, new_visited, max_depth - 1, ...)
\* A call deeper than the recursion limit raises RecursionError instead.
ExpandRecursiveCall ==
    /\ pcExp = "running"
    /\ exp_stack # <<>>
    /\ Top.at = "loop"
    /\ Top.idx <= Len(Top.ref_fields)
    /\ IF Len(exp_stack) >= RecursionLimit
       THEN /\ pcExp' = "raised"
            /\ UNCHANGED exp_stack
       ELSE /\ exp_stack' =
                   Append(exp_stack,
                          Frame(Top.ref_fields[Top.idx],
                                Top.current_path \o <<Top.ref_fields[Top.idx].field_name>>,
                                Top.new_visited,
                                Top.max_depth - 1))
            /\ UNCHANGED pcExp
    /\ UNCHANGED <<exp_schema, exp_max_depth, exp_root, exp_final_rows, exp_sequence, exp_return, exp_result, exp_log>>
    /\ UNCHANGED expFrame

\* return extended_fields
ExpandLoopReturn ==
    /\ pcExp = "running"
    /\ exp_stack # <<>>
    /\ Top.at = "loop"
    /\ Top.idx > Len(Top.ref_fields)
    /\ Return("expand", Top.extended_fields)
    /\ UNCHANGED <<exp_schema, exp_max_depth, exp_root, exp_final_rows, exp_sequence, exp_log>>
    /\ UNCHANGED expFrame

\* for extended_field in recursive_extended: one pass of the loop body
AppendExtendedField ==
    /\ pcExp = "done"
    /\ Len(exp_final_rows) - 1 < Len(exp_result)
    /\ LET extended_field == exp_result[Len(exp_final_rows)]
           original_id == exp_root.id
           sequence == SequenceOf(exp_sequence, original_id) + 1
       IN  /\ exp_sequence' = (original_id :> sequence) @@ exp_sequence
           /\ exp_final_rows' =
                  Append(exp_final_rows,
                         [extended_field EXCEPT !.id = DecimalId(original_id, sequence)])
    /\ UNCHANGED <<exp_schema, exp_max_depth, exp_root, exp_stack, exp_return,
                   exp_result, exp_log, pcExp>>
    /\ UNCHANGED expFrame

\* the loop over recursive_extended is over: the row is finished
FinishRow ==
    /\ pcExp = "done"
    /\ Len(exp_final_rows) - 1 = Len(exp_result)
    /\ pcExp' = "built"
    /\ UNCHANGED <<exp_schema, exp_max_depth, exp_root, exp_stack, exp_return,
                   exp_result, exp_log, exp_final_rows, exp_sequence>>
    /\ UNCHANGED expFrame

(***************************************************************************)
(* _match_records: every table of a run                                    *)
(***************************************************************************)
\* The table names of the model in the order sorted() gives them.
SortedTableNames == <<"Customer", "Part">>

\* Faulty variant: only the tables that have KNX fields are visited.
MatchTablesKnxOnly(knx_df, etn_df) ==
    SelectSeq(SortedTableNames,
              LAMBDA t : \E i \in DOMAIN knx_df : knx_df[i].table_name = t)

\* tables = sorted(set(knx_df['table_name'].dropna().unique()).union(
\*              set(etn_df['knx_table'].dropna().unique())))
MatchTables(knx_df, etn_df) ==
    LET names == ({knx_df[i].table_name : i \in DOMAIN knx_df}
                     \cup {etn_df[i].knx_table : i \in DOMAIN etn_df}) \ {None}
    IN  SelectSeq(SortedTableNames, LAMBDA t : t \in names)

\* matches of one table: the body of "for table_name in tables"
TableMatches(knx_df, etn_df, table_name) ==
    LET table_knx == SelectSeq(knx_df, LAMBDA r : r.table_name = table_name)
        table_etn == SelectSeq(etn_df, LAMBDA r : r.knx_table = table_name)
    IN  _reconcile_table(table_name,
            [i \in DOMAIN table_knx |->
                _prepare_knx_record(KnxRow(table_knx[i].field_name))],
            [i \in DOMAIN table_etn |->
                _prepare_etn_record(EtnRow(table_etn[i].target_field))])

RECURSIVE MatchRecordsLoop(_, _, _, _)
MatchRecordsLoop(knx_df, etn_df, tables, idx) ==
    IF idx > Len(tables) THEN <<>>
    ELSE TableMatches(knx_df, etn_df, tables[idx])
             \o MatchRecordsLoop(knx_df, etn_df, tables, idx + 1)

\* _match_records.  A record's 'knx' and 'etn' are positions in the
\* table's own lists of prepared records.
_match_records(knx_df, etn_df) ==
    MatchRecordsLoop(knx_df, etn_df, MatchTables(knx_df, etn_df), 1)

MaxKnxRows == 2

MaxEtnRows == 2

MrTableNames == {"Customer", "Part", None}

MrFieldNames == {sName, sOrderValue}

MrIdle ==
    /\ mr_knx_df = <<>>
    /\ mr_etn_df = <<>>
    /\ match_payloads = <<>>
    /\ pcMr = "idle"

MrStart ==
    /\ mr_knx_df \in SeqsUpTo([table_name : MrTableNames, field_name : MrFieldNames],
                               MaxKnxRows)
    /\ mr_etn_df \in SeqsUpTo([knx_table : MrTableNames, target_field : MrFieldNames],
                               MaxEtnRows)
    /\ match_payloads = <<>>
    /\ pcMr = "start"

\* matched_rows = self._match_records(data)
MatchRecords ==
    /\ pcMr = "start"
    /\ match_payloads' = _match_records(mr_knx_df, mr_etn_df)
    /\ pcMr' = "done"
    /\ UNCHANGED <<mr_knx_df, mr_etn_df>>
    /\ UNCHANGED mrFrame

(***************************************************************************)
(* Persistence: EtnCdmMappingUpserter.run and _persist_rows, run after run *)
(*                                                                         *)
(* No statement of the repository opens a transaction, so the connection   *)
(* is in auto-commit mode: every con.execute is committed as it completes, *)
(* and con.commit() has nothing left to commit.  An assembled row is named *)
(* by the run that assembled it and its position.                          *)
(***************************************************************************)
MaxRuns == 3

MaxRows == 2

\* assembled_rows of run number run with n match records
AssembledRows(run, n) == [i \in 1..n |-> [run |-> run, pos |-> i]]

PsIdle ==
    /\ cdm_table = <<>>
    /\ ps_previous = <<>>
    /\ ps_rows = <<>>
    /\ ps_run = 0
    /\ ps_outcome = "none"
    /\ pcPs = "idle"

PsStart ==
    /\ cdm_table = <<>>
    /\ ps_previous = <<>>
    /\ ps_rows = <<>>
    /\ ps_run = 0
    /\ ps_outcome = "none"
    /\ pcPs = "ready"

\* run: data = self._load_source_data(con); matched_rows = ...;
\* assembled_rows = self._assemble_rows(matched_rows): one row per record
RunAssemble ==
    /\ pcPs = "ready"
    /\ ps_run < MaxRuns
    /\ ps_run' = ps_run + 1
    /\ \E n \in 0..MaxRows : ps_rows' = AssembledRows(ps_run + 1, n)
    /\ ps_previous' = cdm_table
    /\ ps_outcome' = "none"
    /\ pcPs' = "persist"
    /\ UNCHANGED cdm_table
    /\ UNCHANGED psFrame

\* _persist_rows: if not rows: con.commit(); return
PersistSkip ==
    /\ pcPs = "persist"
    /\ ps_rows = <<>>
    /\ ps_outcome' = "returned"
    /\ pcPs' = "ready"
    /\ UNCHANGED <<cdm_table, ps_previous, ps_rows, ps_run>>
    /\ UNCHANGED psFrame

\* con.execute("TRUNCATE TABLE etn_cdm_mappings")
PersistTruncate ==
    /\ pcPs = "persist"
    /\ ps_rows # <<>>
    /\ cdm_table' = <<>>
    /\ pcPs' = "insert"
    /\ UNCHANGED <<ps_previous, ps_rows, ps_run, ps_outcome>>
    /\ UNCHANGED psFrame

\* for row in rows: con.execute(insert_sql, values), the statement succeeding
PersistInsert ==
    /\ pcPs = "insert"
    /\ Len(cdm_table) < Len(ps_rows)
    /\ cdm_table' = Append(cdm_table, ps_rows[Len(cdm_table) + 1])
    /\ UNCHANGED <<ps_previous, ps_rows, ps_run, ps_outcome, pcPs>>
    /\ UNCHANGED psFrame

\* con.execute(insert_sql, values) raises; run logs the error and re-raises
PersistInsertFails ==
    /\ pcPs = "insert"
    /\ Len(cdm_table) < Len(ps_rows)
    /\ ps_outcome' = "raised"
    /\ pcPs' = "ready"
    /\ UNCHANGED <<cdm_table, ps_previous, ps_rows, ps_run>>
    /\ UNCHANGED psFrame

\* con.commit() after the loop; run returns
PersistCommit ==
    /\ pcPs = "insert"
    /\ Len(cdm_table) = Len(ps_rows)
    /\ ps_outcome' = "returned"
    /\ pcPs' = "ready"
    /\ UNCHANGED <<cdm_table, ps_previous, ps_rows, ps_run>>
    /\ UNCHANGED psFrame

(***************************************************************************)
(* Compound identifiers: the id loop of _build_final_rows for one root,    *)
(* entered after any number of its expanded fields                         *)
(***************************************************************************)
MaxRootId == 4

MaxEmit == 3

\* Numbers of expanded fields already emitted for the root.
SequenceStarts == {0, 8, 98, 99998, 999997, 999998, 9999998, 1234566}

IdIdle ==
    /\ id_root = 0
    /\ id_sequence = 0
    /\ id_values = <<>>
    /\ pcId = "idle"

IdStart ==
    /\ id_root \in 1..MaxRootId
    /\ id_sequence \in SequenceStarts
    /\ id_values = <<>>
    /\ pcId = "loop"

\* sequence = extended_sequence.get(original_id, 0) + 1;
\* extended_sequence[original_id] = sequence;
\* decimal_id = float(f"{original_id}.{sequence:06d}")
AssignDecimalId ==
    /\ pcId = "loop"
    /\ Len(id_values) < MaxEmit
    /\ id_sequence' = id_sequence + 1
    /\ id_values' = Append(id_values, DecimalId(id_root, id_sequence + 1))
    /\ UNCHANGED <<id_root, pcId>>
    /\ UNCHANGED idFrame

(***************************************************************************)
(* Row assembly: _assemble_rows, _assemble_etn_row, _assemble_knx_row       *)
(***************************************************************************)
\* None where the code holds a row (a pandas Series) or None.
NoneRow == [is_none |-> TRUE]

\* Python's `a or b` on values that are None or strings.
PyOr(a, b) == IF a \in {None, ""} THEN b ELSE a

\* The columns of the assembled row that carry the field's name, its
\* description, the mapping notes and the match status.
_assemble_etn_row(etn_raw, knx_raw, match_type) ==
    LET maestro_field_description ==
            IF knx_raw # NoneRow THEN knx_raw.knx_column_description ELSE None
    IN  [canonical_attribute_name |-> etn_raw.target_field,
         maestro_field_name |-> etn_raw.target_field,
         maestro_field_description |-> PyOr(maestro_field_description, etn_raw.notes),
         notes |-> etn_raw.notes,
         match_status |-> _determine_match_status(match_type)]

_assemble_knx_row(knx_raw) ==
    LET field_name == PyOr(knx_raw.field_name_trim, knx_raw.field_name)
    IN  [canonical_attribute_name |-> field_name,
         maestro_field_name |-> field_name,
         maestro_field_description |-> knx_raw.description,
         notes |-> None,
         match_status |-> "KNX_ONLY"]

\* The texts a nullable VARCHAR column holds: NULL, the empty string, a text.
AsmTexts(text) == {None, "", text}

AsmEtnRaws ==
    [target_field : AsmTexts("OrderQty"), notes : AsmTexts("from VBAP")]

\* str.strip on the field names of the rows below.
AsmStrip(name) ==
    CASE name = "Quantity " -> "Quantity"
      [] name = " " -> ""
      [] OTHER -> name

\* A row of knx_extended: field_name is NOT NULL and field_name_trim is
\* field_name.astype(str).str.strip().
AsmKnxRaws ==
    {[field_name |-> f, field_name_trim |-> AsmStrip(f), description |-> d,
      knx_column_description |-> c] :
        f \in {"Quantity ", " ", "Qty"}, d \in AsmTexts("Ordered quantity"),
        c \in AsmTexts("Ordered quantity")}

\* The payloads _reconcile_table produces: an ETN record with its KNX
\* partner, an ETN record alone, a KNX record alone.
AsmPayloads ==
    [etn : AsmEtnRaws, knx : AsmKnxRaws, match_type : {"matched"}]
        \cup [etn : AsmEtnRaws, knx : {NoneRow}, match_type : {"unmatched"}]
        \cup [etn : {NoneRow}, knx : AsmKnxRaws, match_type : {"knx_only"}]

AsmIdle ==
    /\ asm_payload = NoneRow
    /\ asm_row = NoneRow
    /\ pcAsm = "idle"

AsmStart ==
    /\ asm_payload \in AsmPayloads
    /\ asm_row = NoneRow
    /\ pcAsm = "start"

\* One turn of the loop of _assemble_rows.
AssembleRow ==
    /\ pcAsm = "start"
    /\ asm_row' = IF asm_payload.etn # NoneRow
                  THEN _assemble_etn_row(asm_payload.etn, asm_payload.knx,
                                         asm_payload.match_type)
                  ELSE _assemble_knx_row(asm_payload.knx)
    /\ pcAsm' = "done"
    /\ UNCHANGED asm_payload
    /\ UNCHANGED asmFrame

(***************************************************************************)
(* TableDatabase (database.py): knx_doc_tables and knx_doc_columns          *)
(***************************************************************************)
scustomer == <<"c","u","s","t","o","m","e","r">>

\* "SELECT COALESCE(MAX(id), 0) + 1 FROM ..."
NextId(rows) ==
    IF rows = <<>> THEN 1
    ELSE (CHOOSE m \in {rows[i].id : i \in DOMAIN rows} :
              \A i \in DOMAIN rows : rows[i].id <= m) + 1

\* "... FROM knx_doc_tables WHERE name = ?" and fetchone(): VARCHAR equality
\* compares the characters as they are.
get_table_by_name(tables, table_name) ==
    LET result == SelectSeq(tables, LAMBDA t : t.name = table_name)
    IN  IF result # <<>> THEN result[1] ELSE NoneRow

\* Faulty variant: the description of the latest call always wins.
_merge_descriptions_latest(existing, new) == PyOr(new, "")

_merge_descriptions(existing, new) ==
    LET existing_text == PyOr(existing, "")
        new_text == PyOr(new, "")
    IN  IF existing_text = "" \/ Len(new_text) > Len(existing_text) THEN new_text
        ELSE existing_text

\* "... FROM knx_doc_columns WHERE table_id = ? ORDER BY id"
get_columns_for_table(columns, table_id) ==
    SelectSeq(columns, LAMBDA c : c.table_id = table_id)

\* The row one INSERT INTO knx_doc_columns adds.
ColumnRow(columns, table_id, column_data) ==
    [id |-> NextId(columns), table_id |-> table_id,
     field_name |-> column_data.field_name, description |-> column_data.description]

\* The loop of _insert_columns_data from position idx on.
RECURSIVE InsertColumnsLoop(_, _, _, _)
InsertColumnsLoop(columns, table_id, columns_data, idx) ==
    IF idx > Len(columns_data) THEN columns
    ELSE IF columns_data[idx].len >= 5
    THEN InsertColumnsLoop(Append(columns, ColumnRow(columns, table_id, columns_data[idx])),
                           table_id, columns_data, idx + 1)
    ELSE InsertColumnsLoop(columns, table_id, columns_data, idx + 1)

_insert_columns_data(columns, table_id, columns_data) ==
    InsertColumnsLoop(columns, table_id, columns_data, 1)

\* The loop of _merge_columns_data from position idx on;
\* existing_field_names is the set built before the loop.
RECURSIVE MergeColumnsLoop(_, _, _, _, _)
MergeColumnsLoop(columns, table_id, new_columns_data, existing_field_names, idx) ==
    IF idx > Len(new_columns_data) THEN columns
    ELSE LET column_data == new_columns_data[idx]
         IN  IF /\ column_data.len >= 5
                /\ column_data.field_name # ""
                /\ column_data.field_name \notin existing_field_names
             THEN MergeColumnsLoop(
                      Append(columns, ColumnRow(columns, table_id, column_data)),
                      table_id, new_columns_data, existing_field_names, idx + 1)
             ELSE MergeColumnsLoop(columns, table_id, new_columns_data,
                                   existing_field_names, idx + 1)

_merge_columns_data(columns, table_id, new_columns_data) ==
    LET existing_columns == get_columns_for_table(columns, table_id)
        existing_field_names ==
            {existing_columns[i].field_name : i \in DOMAIN existing_columns}
    IN  MergeColumnsLoop(columns, table_id, new_columns_data, existing_field_names, 1)

\* insert_table_data -> the tables, the columns and the returned id.
insert_table_data(tables, columns, table_name, description, calculated_fields_description, columns_data) ==
    LET existing_table == get_table_by_name(tables, table_name)
    IN  IF existing_table # NoneRow
        THEN LET table_id == existing_table.id
                 updated_description ==
                     _merge_descriptions(existing_table.description, description)
                 updated_calc_desc ==
                     _merge_descriptions(existing_table.calculated_fields_description,
                                         calculated_fields_description)
             IN  [tables |->
                      [i \in DOMAIN tables |->
                          IF tables[i].id = table_id
                          THEN [tables[i] EXCEPT
                                   !.description = updated_description,
                                   !.calculated_fields_description = updated_calc_desc]
                          ELSE tables[i]],
                  columns |-> IF columns_data # <<>>
                              THEN _merge_columns_data(columns, table_id, columns_data)
                              ELSE columns,
                  table_id |-> table_id]
        ELSE LET table_id == NextId(tables)
             IN  [tables |->
                      Append(tables,
                             [id |-> table_id, name |-> table_name,
                              description |-> description,
                              calculated_fields_description |->
                                  calculated_fields_description]),
                  columns |-> IF columns_data # <<>>
                              THEN _insert_columns_data(columns, table_id, columns_data)
                              ELSE columns,
                  table_id |-> table_id]

\* The calls the scraper makes: a table name as the page shows it, the two
\* texts of the page and the rows of its column table.
MaxCalls == 3

DbTableNames == {sCustomer, scustomer}

DbPageTexts ==
    {[description |-> "", calculated |-> ""],
     [description |-> "Parts", calculated |-> "Totals per part and site"],
     [description |-> "Parts and sites", calculated |-> "Totals"]}

ColumnData(field_name, description, len) ==
    [field_name |-> field_name, description |-> description, len |-> len]

DbColumnLists ==
    {<<>>,
     <<ColumnData("Id", "Key", 7)>>,
     <<ColumnData("Id", "Key", 7), ColumnData("Name", "Label", 7)>>,
     <<ColumnData("Name", "Label", 7), ColumnData("Name", "Full name", 7)>>,
     <<ColumnData("Id", "Number", 5), ColumnData("Site", "Short row", 4),
       ColumnData("", "Unnamed", 7)>>}

DbIdle ==
    /\ db_tables = <<>>
    /\ db_columns = <<>>
    /\ db_call = NoneRow
    /\ db_before = NoneRow
    /\ db_calls = 0
    /\ pcDb = "idle"

\* _create_tables on a new database file.
DbStart ==
    /\ db_tables = <<>>
    /\ db_columns = <<>>
    /\ db_call = NoneRow
    /\ db_before = NoneRow
    /\ db_calls = 0
    /\ pcDb = "open"

InsertTableData ==
    /\ pcDb = "open"
    /\ db_calls < MaxCalls
    /\ \E table_name \in DbTableNames, texts \in DbPageTexts, columns_data \in DbColumnLists :
           LET result == insert_table_data(db_tables, db_columns, table_name,
                                           texts.description, texts.calculated, columns_data)
           IN  /\ db_tables' = result.tables
               /\ db_columns' = result.columns
               /\ db_call' = [table_name |-> table_name,
                              description |-> texts.description,
                              calculated_fields_description |-> texts.calculated,
                              columns_data |-> columns_data,
                              table_id |-> result.table_id]
    /\ db_before' = [tables |-> db_tables, columns |-> db_columns]
    /\ db_calls' = db_calls + 1
    /\ UNCHANGED pcDb
    /\ UNCHANGED dbFrame

(***************************************************************************)
(* EtnDocMappingExtractor (etn_doc_mapping_extractor.py)                    *)
(***************************************************************************)
\* The first tabs of TAB_NAMES; the last of them has an entry in TAB_MAPPINGS.
NumTabs == 3

TAB_NAMES == SubSeq(<<"Customer", "Part", "HistDmdActual_Ship", "HistoricalReceipt">>, 1, NumTabs)

_get_mapped_table_name(tab_name) ==
    CASE tab_name = "HistDmdActual_Ship" -> "HistoricalDemandActual"
      [] tab_name = "PartSource_MatMstr" -> "PartSource"
      [] tab_name = "IndDmd_Open" -> "IndependentDemand"
      [] tab_name = "SchdRcpt_PO" -> "ScheduledReceipt"
      [] tab_name = "Allocation_WO" -> "Allocation"
      [] tab_name = "SP_PartCustomer" -> "PartCustomer"
      [] tab_name = "Operations" -> "SourceConstraint"
      [] OTHER -> tab_name

TARGET_COLUMNS ==
    {<<"s","o","u","r","c","e"," ","t","a","b","l","e">>,
     <<"s","o","u","r","c","e"," ","f","i","e","l","d">>,
     <<"s","p","e","c","i","a","l"," ","e","x","t","r","a","c","t"," ","l","o","g","i","c">>,
     <<"c","o","n","s","t","a","n","t"," ","v","a","l","u","e">>,
     <<"t","a","r","g","e","t"," ","t","a","b","l","e">>,
     <<"t","a","r","g","e","t"," ","f","i","e","l","d">>,
     <<"e","x","a","m","p","l","e"," ","v","a","l","u","e">>,
     <<"n","o","t","e","s">>,
     <<"k","e","y">>,
     <<"s","h","o","w"," ","o","u","t","p","u","t">>,
     <<"s","o","r","t"," ","o","u","t","p","u","t">>,
     <<"t","r","a","n","s","f","o","r","m","a","t","i","o","n"," ","t","a","b","l","e">>,
     <<"t","r","a","n","s","f","o","r","m","a","t","i","o","n"," ","t","a","b","l","e"," ","n","a","m","e">>}

\* str(col).replace('\n', ' ').replace('\r', ' ').strip().lower() followed by
\* ' '.join(normalized_col.split())
NormalizeHeader(col) == StrJoin(SplitOn(StrLower(StrStrip(col)), Whitespace), <<" ">>)

\* The first column whose normalised header names the Show Output flag;
\* 0 when there is none.
ShowOutputCol(columns) ==
    LET hits == {i \in DOMAIN columns :
                    NormalizeHeader(columns[i]) \in
                        {<<"s","h","o","w"," ","o","u","t","p","u","t">>, <<"s","h","o","w","o","u","t","p","u","t">>,
                         <<"s","h","o","w","_","o","u","t","p","u","t">>}}
    IN  IF hits = {} THEN 0 ELSE CHOOSE i \in hits : \A j \in hits : i <= j

\* The rows df[show_output_mask] keeps: those whose Show Output cell, as
\* text, stripped and upper-cased, is 'Y'; none without such a column.
FlaggedRows(tab) ==
    IF ShowOutputCol(tab.columns) = 0 THEN <<>>
    ELSE SelectSeq(tab.flags, LAMBDA v : StrUpper(StrStrip(v)) = <<"Y">>)

\* columns_to_keep: the columns whose normalised header is a target column
\* (no target column holds 'wave implementation', so the exclusion of the
\* wave columns removes none of them).
ColumnsToKeep(tab) ==
    SelectSeq(tab.columns, LAMBDA col : NormalizeHeader(col) \in TARGET_COLUMNS)

\* Faulty variant: a sheet without flagged rows is kept whole.
_extract_tab_data_unfiltered(tab, tab_name) ==
    IF tab = NoneRow \/ tab.flags = <<>> \/ ColumnsToKeep(tab) = <<>> THEN NoneRow
    ELSE [rows |-> Len(tab.flags), knx_table |-> _get_mapped_table_name(tab_name),
          original_tab |-> tab_name]

\* _extract_tab_data: NoneRow is the None it returns; of the data frame the
\* number of rows and the two columns it adds are kept.
_extract_tab_data(tab, tab_name) ==
    IF tab = NoneRow THEN NoneRow
    ELSE IF tab.flags = <<>> THEN NoneRow
    ELSE IF FlaggedRows(tab) = <<>> THEN NoneRow
    ELSE IF ColumnsToKeep(tab) = <<>> THEN NoneRow
    ELSE [rows |-> Len(FlaggedRows(tab)),
          knx_table |-> _get_mapped_table_name(tab_name),
          original_tab |-> tab_name]

\* The rows pd.concat makes of the extracted tabs, in order.
RECURSIVE CombinedRows(_, _)
CombinedRows(all_data, idx) ==
    IF idx > Len(all_data) THEN <<>>
    ELSE [i \in 1..all_data[idx].rows |->
             [knx_table |-> all_data[idx].knx_table,
              original_tab |-> all_data[idx].original_tab]]
         \o CombinedRows(all_data, idx + 1)

\* The sheets a workbook may hold under a tab name: none, or the header row
\* and the Show Output cell of every data row.
MaxTabRows == 2

ExtHeaderRows ==
    {<<<<"S","h","o","w"," "," ","O","u","t","p","u","t"," ">>, <<"N","O","T","E","S">>>>,
     <<<<"s","h","o","w","_","o","u","t","p","u","t">>, <<"N","O","T","E","S">>>>,
     <<<<"s","h","o","w","_","o","u","t","p","u","t">>, <<"C","o","m","m","e","n","t">>>>,
     <<<<"N","O","T","E","S">>, <<"C","o","m","m","e","n","t">>>>}

ExtFlags == {<<" ","y">>, <<"N">>}

ExtSheets ==
    {NoneRow} \cup
    [columns : ExtHeaderRows,
     flags : UNION {[1..n -> ExtFlags] : n \in 0..MaxTabRows}]

ExtIdle ==
    /\ ext_exists = FALSE
    /\ ext_tab = NoneRow
    /\ ext_idx = 0
    /\ ext_all_data = <<>>
    /\ ext_tab_counts = <<>>
    /\ ext_table = <<>>
    /\ ext_result = NoneRow
    /\ pcExt = "idle"

\* run is entered: the workbook is there or not, etn_doc_mappings holds what
\* an earlier run left.
ExtStart ==
    /\ ext_exists \in BOOLEAN
    /\ ext_tab = NoneRow
    /\ ext_idx = 0
    /\ ext_all_data = <<>>
    /\ ext_tab_counts = <<>>
    /\ ext_table \in {<<>>, <<[knx_table |-> "Supplier", original_tab |-> "Supplier"]>>}
    /\ ext_result = [success |-> FALSE, rows_inserted |-> 0, tab_counts |-> <<>>]
    /\ pcExt = "run"

\* "if not self.excel_path.exists(): return result"
ExtNoWorkbook ==
    /\ pcExt = "run"
    /\ ~ext_exists
    /\ pcExt' = "done"
    /\ UNCHANGED <<ext_exists, ext_tab, ext_idx, ext_all_data, ext_tab_counts, ext_table,
                   ext_result>>
    /\ UNCHANGED extFrame

\* One turn of "for tab_name in self.TAB_NAMES"; the sheet is read from the
\* workbook in this turn.  ext_tab_counts lists (tab_name, count) in the
\* order the dict was filled.
ExtractTab ==
    /\ pcExt = "run"
    /\ ext_exists
    /\ ext_idx < Len(TAB_NAMES)
    /\ \E sheet \in ExtSheets :
           LET tab_name == TAB_NAMES[ext_idx + 1]
               tab_df == _extract_tab_data(sheet, tab_name)
           IN  /\ ext_tab' = sheet
               /\ IF tab_df # NoneRow
                  THEN /\ ext_all_data' = Append(ext_all_data, tab_df)
                       /\ ext_tab_counts' =
                              Append(ext_tab_counts, <<tab_name, tab_df.rows>>)
                  ELSE UNCHANGED <<ext_all_data, ext_tab_counts>>
    /\ ext_idx' = ext_idx + 1
    /\ UNCHANGED <<ext_exists, ext_table, ext_result, pcExt>>
    /\ UNCHANGED extFrame

\* "if not all_data: ... return result"
ExtNothingExtracted ==
    /\ pcExt = "run"
    /\ ext_exists
    /\ ext_idx = Len(TAB_NAMES)
    /\ ext_all_data = <<>>
    /\ pcExt' = "done"
    /\ UNCHANGED <<ext_exists, ext_tab, ext_idx, ext_all_data, ext_tab_counts, ext_table,
                   ext_result>>
    /\ UNCHANGED extFrame

\* The table is dropped and created again, emptied, and given every row of
\* combined_df; the result is updated after the commit.
ExtLoad ==
    /\ pcExt = "run"
    /\ ext_exists
    /\ ext_idx = Len(TAB_NAMES)
    /\ ext_all_data # <<>>
    /\ LET combined_df == CombinedRows(ext_all_data, 1)
       IN  /\ ext_table' = combined_df
           /\ ext_result' = [success |-> TRUE, rows_inserted |-> Len(combined_df),
                             tab_counts |-> ext_tab_counts]
    /\ pcExt' = "done"
    /\ UNCHANGED <<ext_exists, ext_tab, ext_idx, ext_all_data, ext_tab_counts>>
    /\ UNCHANGED extFrame

(***************************************************************************)
(* ExtendKnxDoc.run, and the expansion step of export_to_database           *)
(***************************************************************************)
\* Table names in the order ORDER BY t.name puts them.
TableNameOrder == <<"T1", "T10", "T2", "T3", "T4", "T5", "T6", "T7", "T8", "T9">>

TableNameRank(table_name) ==
    CHOOSE i \in DOMAIN TableNameOrder : TableNameOrder[i] = table_name

\* ORDER BY t.name, <the three keys of OrderedBefore>
BaseOrderedBefore(a, b) ==
    \/ TableNameRank(a.table_name) < TableNameRank(b.table_name)
    \/ (a.table_name = b.table_name /\ OrderedBefore(a, b))

\* _fetch_base_columns: the rows of the base query in its order (no table
\* of the schemas has two columns of one name).
_fetch_base_columns(schema) ==
    LET rows == {BaseRow(schema, c) : c \in Range(schema.columns)}
    IN  [i \in 1..Cardinality(rows) |->
            CHOOSE r \in rows :
                Cardinality({q \in rows : BaseOrderedBefore(q, r)}) = i - 1]

\* Faulty variant: the expanded fields are put before their root's base row.
BuiltRowsExpandedFirst(schema, row, max_depth, extended_sequence) ==
    LET recursive_extended ==
            IF _is_expandable_reference(row)
            THEN ExpandedFields(schema, RootFieldInfo(row), InitialPath(row), {},
                                max_depth, RootFieldProps(row))
            ELSE <<>>
    IN  [k \in DOMAIN recursive_extended |->
            [recursive_extended[k] EXCEPT !.id = DecimalId(row.id, k)]]
        \o <<BaseRowDict(row)>>

\* One turn of the loop of _build_final_rows: the rows it appends to
\* final_rows.  The k-th pass of the inner loop reads
\* extended_sequence.get(original_id, 0) after k - 1 increments.
BuiltRows(schema, row, max_depth, extended_sequence) ==
    LET recursive_extended ==
            IF _is_expandable_reference(row)
            THEN ExpandedFields(schema, RootFieldInfo(row), InitialPath(row), {},
                                max_depth, RootFieldProps(row))
            ELSE <<>>
        original_id == row.id
    IN  <<BaseRowDict(row)>>
        \o [k \in DOMAIN recursive_extended |->
               [recursive_extended[k] EXCEPT
                   !.id = DecimalId(original_id,
                                    SequenceOf(extended_sequence, original_id) + k)]]

\* _safe_value(row['referenced_table_id']): the terminal dicts have no such
\* key, so the data frame holds NaN for them and None is inserted.
InsertedRow(row, display_order) ==
    [id |-> row.id, table_id |-> row.table_id, table_name |-> row.table_name,
     field_name |-> row.field_name, description |-> row.description,
     data_type |-> row.data_type, is_key |-> row.is_key,
     is_calculated |-> row.is_calculated, referenced_table |-> row.referenced_table,
     is_extended |-> row.is_extended, display_on_export |-> row.display_on_export,
     created_at |-> row.created_at,
     referenced_table_id |-> IF "referenced_table_id" \in DOMAIN row
                             THEN row.referenced_table_id ELSE 0,
     display_order |-> display_order]

\* _insert_rows: display_order is incremented before every INSERT.
_insert_rows(columns_df) ==
    [i \in DOMAIN columns_df |-> InsertedRow(columns_df[i], i)]

\* --- export_to_database.py ---------------------------------------------
\* _clean_description of export_to_database.py
Export_clean_description(value) == StrStrip(value)

\* The terminal return of the module-level _expand_reference_recursively.
ExportTerminalField(field_info, current_path, root_field_props) ==
    LET path_parts == current_path
        origin_table == IF Len(path_parts) >= 2
                        THEN path_parts[Len(path_parts) - 1] ELSE "Unknown"
        segments == IF Len(path_parts) > 1
                    THEN SubSeq(path_parts, 2, Len(path_parts)) ELSE path_parts
        root_field_name == root_field_props.field_name
        root_referenced_table == root_field_props.referenced_table
        display_segments ==
            IF /\ root_field_name # ""
               /\ root_referenced_table # None
               /\ root_field_name # root_referenced_table
               /\ (segments = <<>> \/ segments[1] # root_field_name)
            THEN <<root_field_name>> \o segments
            ELSE segments
    IN  [id |-> [prefix |-> "extended_", path |-> current_path],
         table_id |-> root_field_props.table_id,
         table_name |-> root_field_props.table_name,
         field_name |-> [indent |-> "    ", path |-> display_segments],
         description |->
             [root_description |->
                  Export_clean_description(root_field_props.root_description),
              origin_table |-> origin_table,
              origin_description |-> Export_clean_description(field_info.description)],
         data_type |-> field_info.data_type,
         is_key |-> root_field_props.is_key,
         is_calculated |-> field_info.is_calculated,
         referenced_table |-> field_info.ref_referenced_table,
         is_extended |-> TRUE,
         display_on_export |-> root_field_props.display_on_export,
         created_at |-> root_field_props.created_at]

\* The module-level _expand_reference_recursively; its ref_fields_df query
\* is the text of the method's query.
RECURSIVE ExportExpandedFields(_, _, _, _, _, _)
RECURSIVE ExportExpandedFieldsFrom(_, _, _, _, _, _, _)
ExportExpandedFields(schema, field_info, current_path, visited_tables, max_depth, props) ==
    IF max_depth <= 0 THEN <<>>
    ELSE IF field_info.referenced_table_id \in visited_tables THEN <<>>
    ELSE IF \/ field_info.data_type = <<>>
            \/ ~StartsWith(StrLower(field_info.data_type), sreference)
            \/ field_info.is_calculated
            \/ field_info.referenced_table_id = 0
    THEN <<ExportTerminalField(field_info, current_path, props)>>
    ELSE ExportExpandedFieldsFrom(schema,
             RefFieldsQuery(schema, field_info.referenced_table_id), 1, current_path,
             visited_tables \cup {field_info.referenced_table_id}, max_depth, props)

ExportExpandedFieldsFrom(schema, ref_fields, i, current_path, new_visited, max_depth, props) ==
    IF i > Len(ref_fields) THEN <<>>
    ELSE ExportExpandedFields(schema, ref_fields[i],
                              current_path \o <<ref_fields[i].field_name>>,
                              new_visited, max_depth - 1, props)
         \o ExportExpandedFieldsFrom(schema, ref_fields, i + 1, current_path,
                                     new_visited, max_depth, props)

\* Faulty variant: the first sequence number of a root is 0.
ExportSequenceFromZero(extended_sequence, original_id) ==
    IF original_id \notin DOMAIN extended_sequence THEN 0
    ELSE extended_sequence[original_id] + 1

\* "if original_id not in extended_sequence: ... = 1 else: ... += 1"
ExportSequence(extended_sequence, original_id) ==
    IF original_id \notin DOMAIN extended_sequence THEN 1
    ELSE extended_sequence[original_id] + 1

\* The loop over recursive_extended from position k on -> the rows appended.
RECURSIVE ExportAssignIds(_, _, _, _)
ExportAssignIds(recursive_extended, k, original_id, extended_sequence) ==
    IF k > Len(recursive_extended) THEN <<>>
    ELSE LET sequence == ExportSequence(extended_sequence, original_id)
         IN  <<[recursive_extended[k] EXCEPT !.id = DecimalId(original_id, sequence)]>>
             \o ExportAssignIds(recursive_extended, k + 1, original_id,
                                (original_id :> sequence) @@ extended_sequence)

\* The loop over base_columns_df from position i on -> final_rows.  Every
\* base row has its own id, so the entries earlier rows left in
\* extended_sequence are never read again and are not carried along.
RECURSIVE ExportFinalRows(_, _, _)
ExportFinalRows(schema, base_columns_df, i) ==
    IF i > Len(base_columns_df) THEN <<>>
    ELSE LET row == base_columns_df[i]
             base_row == [row EXCEPT !.is_extended = (row.is_extended = TRUE)]
             expandable ==
                 /\ row.data_type # <<>>
                 /\ StartsWith(StrLower(row.data_type), sreference)
                 /\ row.referenced_table_id # 0
                 /\ ~row.is_calculated
             recursive_extended ==
                 IF expandable
                 THEN ExportExpandedFields(schema, RootFieldInfo(row), InitialPath(row),
                                           {}, DefaultMaxDepth, RootFieldProps(row))
                 ELSE <<>>
         IN  <<base_row>>
             \o ExportAssignIds(recursive_extended, 1, row.id, <<>>)
             \o ExportFinalRows(schema, base_columns_df, i + 1)

\* Step 3 of export_to_database: one INSERT per row of columns_df.
ExportInsertedRows(columns_df) ==
    [i \in DOMAIN columns_df |->
        [id |-> columns_df[i].id, table_id |-> columns_df[i].table_id,
         table_name |-> columns_df[i].table_name,
         field_name |-> columns_df[i].field_name,
         description |-> columns_df[i].description,
         data_type |-> columns_df[i].data_type, is_key |-> columns_df[i].is_key,
         is_calculated |-> columns_df[i].is_calculated,
         referenced_table |-> columns_df[i].referenced_table,
         is_extended |-> columns_df[i].is_extended,
         display_on_export |-> columns_df[i].display_on_export,
         created_at |-> columns_df[i].created_at,
         referenced_table_id |-> IF "referenced_table_id" \in DOMAIN columns_df[i]
                                 THEN columns_df[i].referenced_table_id ELSE 0,
         display_order |-> i]]

\* A row an earlier run left in knx_doc_extended.
StaleRow == [id |-> 0, display_order |-> 1]

RunIdle ==
    /\ run_schema = <<>>
    /\ run_max_depth = 0
    /\ run_base = <<>>
    /\ run_idx = 0
    /\ run_final_rows = <<>>
    /\ run_sequence = <<>>
    /\ run_table = <<>>
    /\ run_count = 0
    /\ pcRun = "idle"
    /\ xp_table = <<>>
    /\ pcXp = "idle"

\* The database holds a schema and what an earlier run left in
\* knx_doc_extended; ExtendKnxDoc.run and export_to_database each work on
\* their own copy of it.
RunStart ==
    /\ run_schema \in GeneratedSchemas \cup {ChainSchema}
    /\ run_max_depth \in {MaxDepthArg, DefaultMaxDepth}
    /\ run_base = <<>>
    /\ run_idx = 0
    /\ run_final_rows = <<>>
    /\ run_sequence = <<>>
    /\ run_table \in {<<>>, <<StaleRow>>}
    /\ run_count = 0
    /\ pcRun = "start"
    /\ xp_table = run_table
    /\ pcXp = "start"

\* self._truncate_knx_doc_extended(); base_columns_df = self._fetch_base_columns()
RunFetchBase ==
    /\ pcRun = "start"
    /\ run_table' = <<>>
    /\ run_base' = _fetch_base_columns(run_schema)
    /\ pcRun' = "build"
    /\ UNCHANGED <<run_schema, run_max_depth, run_idx, run_final_rows, run_sequence,
                   run_count, xp_table, pcXp>>
    /\ UNCHANGED runFrame

\* One turn of "for _, row in base_columns_df.iterrows()".
RunBuildRow ==
    /\ pcRun = "build"
    /\ run_idx < Len(run_base)
    /\ LET row == run_base[run_idx + 1]
           rows == BuiltRows(run_schema, row, run_max_depth, run_sequence)
       IN  /\ run_final_rows' = run_final_rows \o rows
           /\ run_sequence' = IF Len(rows) > 1
                              THEN (row.id :> SequenceOf(run_sequence, row.id)
                                                  + Len(rows) - 1) @@ run_sequence
                              ELSE run_sequence
    /\ run_idx' = run_idx + 1
    /\ UNCHANGED <<run_schema, run_max_depth, run_base, run_table, run_count, pcRun,
                   xp_table, pcXp>>
    /\ UNCHANGED runFrame

\* insert_count = self._insert_rows(columns_df); self.con.commit(); return
RunInsertRows ==
    /\ pcRun = "build"
    /\ run_idx = Len(run_base)
    /\ run_table' = _insert_rows(run_final_rows)
    /\ run_count' = Len(run_final_rows)
    /\ pcRun' = "done"
    /\ UNCHANGED <<run_schema, run_max_depth, run_base, run_idx, run_final_rows,
                   run_sequence, xp_table, pcXp>>
    /\ UNCHANGED runFrame

\* export_to_database up to its commit: truncate, base query, expansion
\* with depth 5, inserts.  It is run on its copy after ExtendKnxDoc.run has
\* returned.
ExportExpansionStep ==
    /\ pcRun = "done"
    /\ pcXp = "start"
    /\ xp_table' = ExportInsertedRows(
                       ExportFinalRows(run_schema, _fetch_base_columns(run_schema), 1))
    /\ pcXp' = "done"
    /\ UNCHANGED <<run_schema, run_max_depth, run_base, run_idx, run_final_rows,
                   run_sequence, run_table, run_count, pcRun>>
    /\ UNCHANGED runFrame

(***************************************************************************)
(* Excel export: the ETN CDM sheet (export_to_excel.py)                     *)
(***************************************************************************)
TARGET_TABLES ==
    << <<"A","l","l","o","c","a","t","i","o","n">>,
       <<"A","l","t","e","r","n","a","t","e","P","a","r","t">>,
       <<"B","i","l","l","O","f","M","a","t","e","r","i","a","l">>,
       <<"B","O","M","A","l","t","e","r","n","a","t","e">>,
       <<"B","u","y","e","r","C","o","d","e">>,
       <<"C","a","l","e","n","d","a","r">>,
       <<"C","a","l","e","n","d","a","r","D","a","t","e">>,
       <<"C","o","n","s","t","r","a","i","n","t">>,
       <<"C","o","n","s","t","r","a","i","n","A","v","a","i","l","a","b","l","e">>,
       <<"C","u","s","t","o","m","e","r">>,
       <<"D","e","m","a","n","d","O","r","d","e","r">>,
       <<"H","i","s","t","o","r","i","c","a","l","D","e","m","a","n","d","H","e","a","d","e","r">>,
       <<"H","i","s","t","o","r","i","c","a","l","D","e","m","a","n","d","A","c","t","u","a","l">>,
       <<"H","i","s","t","o","r","i","c","a","l","R","e","c","e","i","p","t">>,
       <<"H","i","s","t","o","r","i","c","a","l","R","e","c","e","i","p","t","H","e","a","d","e","r">>,
       <<"H","i","s","t","o","r","i","c","a","l","S","u","p","p","l","y","H","e","a","d","e","r">>,
       <<"H","i","s","t","o","r","i","c","a","l","S","u","p","p","l","y","A","c","t","u","a","l">>,
       <<"I","n","d","e","p","e","n","d","e","n","t","D","e","m","a","n","d">>,
       <<"O","n","H","a","n","d">>,
       <<"O","p","e","r","a","t","i","o","n">>,
       <<"P","a","r","t">>,
       <<"P","a","r","t","C","u","s","t","o","m","e","r">>,
       <<"P","a","r","t","S","o","u","r","c","e">>,
       <<"P","a","r","t","S","u","p","p","l","i","e","r">>,
       <<"P","l","a","n","n","e","r","C","o","d","e">>,
       <<"R","e","f","e","r","e","n","c","e","P","a","r","t">>,
       <<"S","i","t","e">>,
       <<"S","c","h","e","d","u","l","e","d","R","e","c","e","i","p","t">>,
       <<"S","o","u","r","c","e">>,
       <<"S","o","u","r","c","e","C","o","n","s","t","r","a","i","n","t">>,
       <<"S","u","p","p","l","i","e","r">>,
       <<"S","u","p","p","l","y","O","r","d","e","r">>,
       <<"R","o","u","t","i","n","g">> >>

\* target_tables_upper = [name.upper() for name in TARGET_TABLES]
target_tables_upper == {StrUpper(TARGET_TABLES[i]) : i \in DOMAIN TARGET_TABLES}

ETN_MATCH_STATUSES == {sETN_ONLY, sMATCHED}

\* astype('string').fillna("") of the BOOLEAN column maestro_is_key, whose
\* values are Python's True, False and None.
KeyFlagText(v) ==
    IF v = "True" THEN <<"T","r","u","e">>
    ELSE IF v = "False" THEN <<"F","a","l","s","e">>
    ELSE <<>>

\* etn_cdm_df.loc[key_mask, "maestro_is_key"] = True
ApplyKeyLookup(row, key_field_lookup) ==
    LET canonical_upper == StrUpper(row.canonical_entity_name)
        maestro_field_upper == StrUpper(StrStrip(row.maestro_field_name))
    IN  IF <<canonical_upper, maestro_field_upper>> \in key_field_lookup
        THEN [row EXCEPT !.maestro_is_key = "True"]
        ELSE row

\* Mutant: the filter keeps every row of a target table.
FilterMaskEntityOnly(row) ==
    StrUpper(row.canonical_entity_name) \in target_tables_upper

\* filter_mask = canonical_match & (status_match | maestro_key_flags)
FilterMask(row) ==
    LET canonical_match == StrUpper(row.canonical_entity_name) \in target_tables_upper
        status_match == StrUpper(StrStrip(row.match_status)) \in ETN_MATCH_STATUSES
        maestro_key_flags ==
            StrUpper(StrStrip(KeyFlagText(row.maestro_is_key)))
                \in {<<"T","R","U","E">>, <<"Y","E","S">>, <<"Y">>, <<"1">>}
    IN  canonical_match /\ (status_match \/ maestro_key_flags)

\* The renamed row with "Maestro Is Key" turned into a boolean.
RenamedRow(row) ==
    [canonical_entity_name |-> row.canonical_entity_name,
     maestro_table_name |-> row.maestro_table_name,
     maestro_field_name |-> row.maestro_field_name,
     match_status |-> row.match_status,
     maestro_is_key |->
         StrLower(StrStrip(KeyFlagText(row.maestro_is_key)))
             \in {<<"t","r","u","e">>, <<"y","e","s">>, <<"y">>, <<"1">>, <<"t">>}]

\* ord(c) for the characters of the modelled alphabet
CharCode(c) ==
    IF c \in UpperSet THEN 64 + (CHOOSE i \in DOMAIN UpperSeq : UpperSeq[i] = c)
    ELSE IF c \in LowerSet THEN 96 + (CHOOSE i \in DOMAIN LowerSeq : LowerSeq[i] = c)
    ELSE IF c \in DigitSet THEN 47 + (CHOOSE i \in DOMAIN DigitSeq : DigitSeq[i] = c)
    ELSE IF c = " " THEN 32
    ELSE IF c = "-" THEN 45
    ELSE IF c = "." THEN 46
    ELSE IF c = "/" THEN 47
    ELSE 95

\* a < b for Python strings
StrBefore(a, b) ==
    \E n \in 0..Len(a) :
        /\ n <= Len(b)
        /\ \A i \in 1..n : a[i] = b[i]
        /\ \/ n = Len(a) /\ n < Len(b)
           \/ n < Len(a) /\ n < Len(b) /\ CharCode(a[n + 1]) < CharCode(b[n + 1])

\* sort_values(by=[table name, key flag, field name], ascending=[True, False, True])
SortsBefore(a, b) ==
    \/ StrBefore(a.maestro_table_name, b.maestro_table_name)
    \/ /\ a.maestro_table_name = b.maestro_table_name
       /\ \/ a.maestro_is_key /\ ~b.maestro_is_key
          \/ /\ a.maestro_is_key = b.maestro_is_key
             /\ StrBefore(a.maestro_field_name, b.maestro_field_name)

\* kind="mergesort": rows that compare equal keep their order.
SortedRows(rows) ==
    LET Place(i) == Cardinality({j \in DOMAIN rows :
                        \/ SortsBefore(rows[j], rows[i])
                        \/ ~SortsBefore(rows[i], rows[j]) /\ j < i}) + 1
    IN  [p \in DOMAIN rows |-> rows[CHOOSE i \in DOMAIN rows : Place(i) = p]]

\* _prepare_etn_cdm: key flags from knx_doc_extended, the filter, the boolean
\* key column, the sort and the Field Category column.
_prepare_etn_cdm(etn_cdm_df, key_field_lookup) ==
    LET flagged == [i \in DOMAIN etn_cdm_df |->
                        ApplyKeyLookup(etn_cdm_df[i], key_field_lookup)]
        filtered == SelectSeq(flagged, FilterMask)
        renamed == [i \in DOMAIN filtered |-> RenamedRow(filtered[i])]
        sorted == SortedRows(renamed)
    IN  [i \in DOMAIN sorted |->
            [canonical_entity_name |-> sorted[i].canonical_entity_name,
             maestro_table_name |-> sorted[i].maestro_table_name,
             maestro_field_name |-> sorted[i].maestro_field_name,
             match_status |-> sorted[i].match_status,
             maestro_is_key |-> sorted[i].maestro_is_key,
             field_category |-> _determine_field_category(sorted[i])]]

(***************************************************************************)
(* Excel export driver                                                      *)
(***************************************************************************)
MaxXlRows == 2

sPart == <<"P","a","r","t">>
sWidget == <<"W","i","d","g","e","t">>

\* Rows of etn_cdm_mappings; the upserter writes one table name to
\* canonical_entity_name and to maestro_table_name.
XlRows ==
    {[canonical_entity_name |-> t, maestro_table_name |-> t,
      maestro_field_name |-> f, match_status |-> s, maestro_is_key |-> k] :
        t \in {sPart, sWidget}, f \in {sQty, sOrderDate},
        s \in {sMATCHED, sEtnOnlyLoose, sKNX_ONLY},
        k \in {"True", "False", None}}

\* Results of _build_key_lookup
XlKeyLookups == {{}, {<<StrUpper(sPart), StrUpper(sQty)>>}}

XlIdle ==
    /\ xl_table = <<>>
    /\ xl_keys = {}
    /\ xl_out = <<>>
    /\ pcXl = "idle"

XlStart ==
    /\ xl_table \in SeqsUpTo(XlRows, MaxXlRows) \ {<<>>}
    /\ xl_keys \in XlKeyLookups
    /\ xl_out = <<>>
    /\ pcXl = "start"

\* etn_cdm_df = self._prepare_etn_cdm(...)
PrepareEtnCdm ==
    /\ pcXl = "start"
    /\ xl_out' = _prepare_etn_cdm(xl_table, xl_keys)
    /\ pcXl' = "done"
    /\ UNCHANGED <<xl_table, xl_keys>>
    /\ UNCHANGED xlFrame

(***************************************************************************)
(* Specifications: one per component, the other components idle            *)
(***************************************************************************)
TokInit ==
    TokStart /\ RecIdle /\ SapIdle /\ CatIdle /\ ExpIdle /\ IdIdle /\ MrIdle /\ PsIdle
        /\ AsmIdle /\ DbIdle /\ ExtIdle /\ RunIdle /\ XlIdle
TokNext == TokenizeCall \/ GenerateKeysCall \/ RetokenizeCall
SpecTok == TokInit /\ [][TokNext]_vars

RecInit ==
    RecStart /\ TokIdle /\ SapIdle /\ CatIdle /\ ExpIdle /\ IdIdle /\ MrIdle /\ PsIdle
        /\ AsmIdle /\ DbIdle /\ ExtIdle /\ RunIdle /\ XlIdle
RecNext == PrepareRecords \/ ReconcileTable
SpecRec == RecInit /\ [][RecNext]_vars

SapInit ==
    SapStart /\ TokIdle /\ RecIdle /\ CatIdle /\ ExpIdle /\ IdIdle /\ MrIdle /\ PsIdle
        /\ AsmIdle /\ DbIdle /\ ExtIdle /\ RunIdle /\ XlIdle
SapNext == DeriveSapStrategy
SpecSap == SapInit /\ [][SapNext]_vars

CatInit ==
    CatStart /\ TokIdle /\ RecIdle /\ SapIdle /\ ExpIdle /\ IdIdle /\ MrIdle /\ PsIdle
        /\ AsmIdle /\ DbIdle /\ ExtIdle /\ RunIdle /\ XlIdle
CatNext == DetermineFieldCategory
SpecCat == CatInit /\ [][CatNext]_vars

ExpInit ==
    ExpStart /\ TokIdle /\ RecIdle /\ SapIdle /\ CatIdle /\ IdIdle /\ MrIdle /\ PsIdle
        /\ AsmIdle /\ DbIdle /\ ExtIdle /\ RunIdle /\ XlIdle
ExpNext ==
    \/ ExpandRootCall
    \/ ExpandDepthReached
    \/ ExpandCycleDetected
    \/ ExpandTerminal
    \/ ExpandFetchRefFields
    \/ ExpandRecursiveCall
    \/ ExpandLoopReturn
    \/ AppendExtendedField
    \/ FinishRow
SpecExp == ExpInit /\ [][ExpNext]_vars

\* The interpreter runs the single thread to the end: no step that can be
\* taken is put off for ever.
SpecExpLive ==
    /\ ExpInit
    /\ [][ExpNext]_vars
    /\ WF_vars(ExpandRootCall)
    /\ WF_vars(ExpandDepthReached)
    /\ WF_vars(ExpandCycleDetected)
    /\ WF_vars(ExpandTerminal)
    /\ WF_vars(ExpandFetchRefFields)
    /\ WF_vars(ExpandRecursiveCall)
    /\ WF_vars(ExpandLoopReturn)

IdInit ==
    IdStart /\ TokIdle /\ RecIdle /\ SapIdle /\ CatIdle /\ ExpIdle /\ MrIdle /\ PsIdle
        /\ AsmIdle /\ DbIdle /\ ExtIdle /\ RunIdle /\ XlIdle
IdNext == AssignDecimalId
SpecId == IdInit /\ [][IdNext]_vars

MrInit ==
    MrStart /\ TokIdle /\ RecIdle /\ SapIdle /\ CatIdle /\ ExpIdle /\ IdIdle /\ PsIdle
        /\ AsmIdle /\ DbIdle /\ ExtIdle /\ RunIdle /\ XlIdle
MrNext == MatchRecords
SpecMr == MrInit /\ [][MrNext]_vars

PsInit ==
    PsStart /\ TokIdle /\ RecIdle /\ SapIdle /\ CatIdle /\ ExpIdle /\ IdIdle /\ MrIdle
        /\ AsmIdle /\ DbIdle /\ ExtIdle /\ RunIdle /\ XlIdle
PsNext ==
    \/ RunAssemble
    \/ PersistSkip
    \/ PersistTruncate
    \/ PersistInsert
    \/ PersistInsertFails
    \/ PersistCommit
SpecPs == PsInit /\ [][PsNext]_vars

AsmInit ==
    AsmStart /\ TokIdle /\ RecIdle /\ SapIdle /\ CatIdle /\ ExpIdle /\ IdIdle /\ MrIdle
        /\ PsIdle /\ DbIdle /\ ExtIdle /\ RunIdle /\ XlIdle
AsmNext ==
    AssembleRow
SpecAsm == AsmInit /\ [][AsmNext]_vars

DbInit ==
    DbStart /\ TokIdle /\ RecIdle /\ SapIdle /\ CatIdle /\ ExpIdle /\ IdIdle /\ MrIdle
        /\ PsIdle /\ AsmIdle /\ ExtIdle /\ RunIdle /\ XlIdle
DbNext ==
    InsertTableData
SpecDb == DbInit /\ [][DbNext]_vars

ExtInit ==
    ExtStart /\ TokIdle /\ RecIdle /\ SapIdle /\ CatIdle /\ ExpIdle /\ IdIdle /\ MrIdle
        /\ PsIdle /\ AsmIdle /\ DbIdle /\ RunIdle /\ XlIdle
ExtNext ==
    ExtNoWorkbook \/ ExtractTab \/ ExtNothingExtracted \/ ExtLoad
SpecExt == ExtInit /\ [][ExtNext]_vars

RunInit ==
    RunStart /\ TokIdle /\ RecIdle /\ SapIdle /\ CatIdle /\ ExpIdle /\ IdIdle /\ MrIdle
        /\ PsIdle /\ AsmIdle /\ DbIdle /\ ExtIdle /\ XlIdle
RunNext ==
    RunFetchBase \/ RunBuildRow \/ RunInsertRows \/ ExportExpansionStep
SpecRun == RunInit /\ [][RunNext]_vars

XlInit ==
    XlStart /\ TokIdle /\ RecIdle /\ SapIdle /\ CatIdle /\ ExpIdle /\ IdIdle /\ MrIdle
        /\ PsIdle /\ AsmIdle /\ DbIdle /\ ExtIdle /\ RunIdle
XlNext ==
    PrepareEtnCdm
SpecXl == XlInit /\ [][XlNext]_vars

Init ==
    TokInit \/ RecInit \/ SapInit \/ CatInit \/ ExpInit \/ IdInit \/ MrInit \/ PsInit
        \/ AsmInit \/ DbInit \/ ExtInit \/ RunInit \/ XlInit
Next ==
    TokNext \/ RecNext \/ SapNext \/ CatNext \/ ExpNext \/ IdNext \/ MrNext \/ PsNext
        \/ AsmNext \/ DbNext \/ ExtNext \/ RunNext \/ XlNext
Spec == Init /\ [][Next]_vars

(***************************************************************************)
(* Properties of the tokenizer                                             *)
(***************************************************************************)
\* C6 (as stated): tokenizing the '.'-join of the ordered tokens of
\* _tokenize(x) returns the same ordered token sequence as _tokenize(x).
TokenizerIdempotent ==
    pcTok = "done" => tok_again = tok_tokens

\* The set of '.'-joins of every non-empty suffix t[i:] of t.
SuffixChains(t) ==
    {StrJoin(SubSeq(t, i, Len(t)), <<".">>) : i \in 1..Len(t)}

\* C7: for every ordered token list t of length n, _generate_keys(t) is
\* exactly { '.'-join of t[i:] : 0 <= i < n }; ['a','b','c'] gives
\* {'a.b.c','b.c','c'} and the empty list gives the empty set.
SuffixKeyCorrectness ==
    pcTok \in {"keyed", "done"} =>
        /\ tok_keys = SuffixChains(tok_tokens)
        /\ Cardinality(tok_keys) <= Len(tok_tokens)
        /\ (tok_tokens = <<>> => tok_keys = {})
        /\ (tok_tokens = << <<"a">>, <<"b">>, <<"c">> >> =>
                tok_keys = {<<"a",".","b",".","c">>, <<"b",".","c">>, <<"c">>})

\* C7 witness: the keys of a three-token list have been generated.
SuffixKeyWitness ==
    /\ pcTok = "keyed"
    /\ tok_tokens = << <<"a">>, <<"b">>, <<"c">> >>
    /\ Cardinality(tok_keys) = 3

(***************************************************************************)
(* Properties of the matcher                                               *)
(***************************************************************************)
MatchedPositions == {i \in DOMAIN matches : matches[i].match_type = "matched"}

\* C1 (as stated): no KNX record and no ETN record is a member of more than
\* one output record whose match_type is 'matched'.
MatchingExclusivity ==
    pcRec = "done" =>
        \A i, j \in MatchedPositions :
            i # j => /\ matches[i].knx # matches[j].knx
                     /\ matches[i].etn # matches[j].etn

\* C2 (as stated): every input KNX record appears in exactly one output
\* record and every input ETN record appears in exactly one output record.
MatchingCompleteness ==
    pcRec = "done" =>
        /\ \A k \in DOMAIN knx_records :
               Cardinality({i \in DOMAIN matches : matches[i].knx = k}) = 1
        /\ \A e \in DOMAIN etn_records :
               Cardinality({i \in DOMAIN matches : matches[i].etn = e}) = 1

\* The KNX positions whose trimmed field name equals the ETN record's
\* trimmed target field ignoring case.
ExactPartners(e) ==
    {k \in DOMAIN knx_records :
        StrLower(StrStrip(rec_knx_rows[k])) = StrLower(StrStrip(rec_etn_rows[e]))}

\* C3: whenever an ETN record's trimmed target field equals some KNX
\* record's trimmed field name ignoring case, the ETN record is paired with
\* a KNX record of equal case-folded name; left=[CustomerName],
\* right=[CustomerName, Name] gives CustomerName matched and Name ETN-only.
ExactNamePrecedence ==
    pcRec = "done" =>
        /\ \A i \in DOMAIN matches :
               (matches[i].etn # 0 /\ ExactPartners(matches[i].etn) # {}) =>
                   /\ matches[i].match_type = "matched"
                   /\ matches[i].knx \in ExactPartners(matches[i].etn)
        /\ (rec_knx_rows = <<sCustomerName>>
                /\ rec_etn_rows = <<sCustomerName, sName>>) =>
               matches = <<[table_name |-> RecTable, etn |-> 1, knx |-> 1,
                            match_type |-> "matched"],
                           [table_name |-> RecTable, etn |-> 2, knx |-> 0,
                            match_type |-> "unmatched"]>>

\* C3 witness: an ETN record with an exact partner that is not the first
\* KNX record, while the first KNX record shares all its tokens.
ExactNameWitness ==
    /\ pcRec = "done"
    /\ rec_knx_rows = <<sCustomer_Name, sCustomerDotName>>
    /\ rec_etn_rows = <<sCustomerDotName>>
    /\ matches[1].knx = 2

\* The score C24 states for ETN record e and KNX record k.
StatedScore(e, k) ==
    LET E == etn_records[e]
        K == knx_records[k]
    IN  5 * Cardinality(Range(E.normalized_tokens) \cap Range(K.normalized_tokens))
          + 10 * (IF E.normalized_keys \cap K.normalized_keys # {} THEN 1 ELSE 0)
          + 2 * Cardinality(E.token_bag \cap K.token_bag)
          + 15 * (IF StrLower(StrStrip(rec_etn_rows[e])) = StrLower(StrStrip(rec_knx_rows[k]))
                  THEN 1 ELSE 0)

\* C24: every ETN record is given a KNX record iff some KNX record of the
\* table scores above 0 with it; the record given has the highest score and
\* is the first of the records of that score in input order.
BestMatchRule ==
    pcRec = "done" =>
        \A i \in DOMAIN matches :
            matches[i].etn # 0 =>
                LET e == matches[i].etn
                    k == matches[i].knx
                IN  /\ (k # 0) <=> (\E j \in DOMAIN knx_records : StatedScore(e, j) > 0)
                    /\ k # 0 =>
                           \A j \in DOMAIN knx_records :
                               /\ StatedScore(e, j) <= StatedScore(e, k)
                               /\ StatedScore(e, j) = StatedScore(e, k) => j >= k

\* C24 witness: two KNX records share the highest score of an ETN record,
\* which was given the first of them, while another ETN record got none.
BestMatchWitness ==
    /\ pcRec = "done"
    /\ \E i \in DOMAIN matches :
           /\ matches[i].etn # 0
           /\ matches[i].knx = 1
           /\ Len(knx_records) >= 2
           /\ StatedScore(matches[i].etn, 2) = StatedScore(matches[i].etn, 1)
    /\ \E i \in DOMAIN matches : matches[i].match_type = "unmatched"

\* C17: in every record output by _reconcile_table not both sides are
\* null; it is 'matched' (MATCHED) exactly when both sides are present,
\* 'unmatched' (ETN_ONLY) exactly when the KNX side is null and 'knx_only'
\* (KNX_ONLY) exactly when the ETN side is null.
MatchRecordShape ==
    pcRec = "done" =>
        \A i \in DOMAIN matches :
            LET m == matches[i]
                status == _determine_match_status(m.match_type)
            IN  /\ ~(m.knx = 0 /\ m.etn = 0)
                /\ m.match_type \in {"matched", "unmatched", "knx_only"}
                /\ (m.match_type = "matched") <=> (m.knx # 0 /\ m.etn # 0)
                /\ (m.match_type = "unmatched") <=> (m.knx = 0)
                /\ (m.match_type = "knx_only") <=> (m.etn = 0)
                /\ (status = "MATCHED") <=> (m.knx # 0 /\ m.etn # 0)
                /\ (status = "ETN_ONLY") <=> (m.knx = 0)
                /\ (status = "KNX_ONLY") <=> (m.etn = 0)

\* One table whose output holds a record of each of the three kinds.
MatchRecordShapeWitness ==
    /\ pcRec = "done"
    /\ {matches[i].match_type : i \in DOMAIN matches}
           = {"matched", "unmatched", "knx_only"}

\* The declared table names that have mapping records but no KNX field.
DeclaredOnlyTables ==
    {t \in {mr_etn_df[i].knx_table : i \in DOMAIN mr_etn_df} \ {None} :
        \A i \in DOMAIN mr_knx_df : mr_knx_df[i].table_name # t}

GroupOf(t) == SelectSeq(match_payloads, LAMBDA m : m.table_name = t)

\* C18: a declared table name without any KNX field still gets a group,
\* holding exactly one ETN_ONLY record per mapping record of that name and
\* nothing else, and the records of the other tables are those of the run
\* without the mapping records of that name.
DeclaredTableTolerated ==
    pcMr = "done" =>
        \A t \in DeclaredOnlyTables :
            LET group == GroupOf(t)
                n == Cardinality({i \in DOMAIN mr_etn_df : mr_etn_df[i].knx_table = t})
            IN  /\ Len(group) = n
                /\ \A k \in DOMAIN group :
                       /\ group[k].etn = k
                       /\ group[k].knx = 0
                       /\ _determine_match_status(group[k].match_type) = "ETN_ONLY"
                /\ SelectSeq(match_payloads, LAMBDA m : m.table_name # t)
                       = _match_records(mr_knx_df,
                             SelectSeq(mr_etn_df, LAMBDA r : r.knx_table # t))

\* 'Part' is declared by a mapping record and has no KNX field, while
\* 'Customer' has a matched record.
DeclaredTableWitness ==
    /\ pcMr = "done"
    /\ "Part" \in DeclaredOnlyTables
    /\ Len(GroupOf("Part")) = 1
    /\ GroupOf("Part")[1].match_type = "unmatched"
    /\ \E i \in DOMAIN match_payloads :
           /\ match_payloads[i].table_name = "Customer"
           /\ match_payloads[i].match_type = "matched"

(***************************************************************************)
(* Properties of the SAP inference                                         *)
(***************************************************************************)
\* C8 (as stated): with source table 'KNA1' and source field 'KUNNR' the
\* result is tcode 'XD03', screen name 'Display Customer (General Data)' and
\* screen field 'KUNNR', whatever the Maestro-side field name, field
\* description and table name are.
SapExactHintExample ==
    (pcSap = "done" /\ sap_in.primary_table = sKNA1 /\ sap_in.source_field = sKUNNR) =>
        /\ sap_out.erp_tcode = "XD03"
        /\ sap_out.erp_screen_name = "Display Customer (General Data)"
        /\ sap_out.erp_screen_field_name = sKUNNR

\* The table token and the field token the inference determines from sap_in.
SapSelectedTable ==
    _select_sap_table(SapTableSources(sap_in.primary_table, sap_in.source_field,
                                      sap_in.maestro_field_name,
                                      sap_in.maestro_field_description,
                                      sap_in.maestro_table_name)).table

SapSelectedField ==
    _select_sap_field(SapSelectedTable, sap_in.source_field, sap_in.maestro_field_name,
                      sap_in.maestro_field_description, sap_in.maestro_table_name).token

\* C11 (as stated): whenever the inference determines neither a table token
\* nor a field token, also when source table and source field are both
\* empty, the strategy is exactly 'insufficient_source_metadata'.
SapInsufficientLabel ==
    (/\ pcSap = "done"
     /\ \/ (sap_in.primary_table = <<>> /\ sap_in.source_field = <<>>)
        \/ (SapSelectedTable = <<>> /\ SapSelectedField = <<>>))
        => sap_out.strategy = <<"insufficient_source_metadata">>

\* The tokens of a text that pass the tests of _select_sap_table, and those
\* of them that are hint-table mnemonics.
QualifyingTokens(value) ==
    SelectSeq(_tokenize_identifier_parts(value), QualifiesAsIdentifier)

HintTokens(value) ==
    SelectSeq(QualifyingTokens(value),
              LAMBDA t : StrLower(t.token_upper) \in DOMAIN SAP_TABLE_HINTS)

NoHintAnywhere ==
    \A value \in {sap_in.primary_table, sap_in.source_field, sap_in.maestro_field_name,
                   sap_in.maestro_field_description, sap_in.maestro_table_name} :
        HintTokens(value) = <<>>

\* C12 (as stated): the source-table text has the highest priority.  When it
\* holds a hint-table mnemonic, the table, tcode and screen name are those
\* of that mnemonic whatever the other texts hold; when no text holds a
\* mnemonic and the source-table text holds a valid identifier, the
\* fallback table is taken from the source-table text.
SapTablePriorityClaimed ==
    pcSap = "done" =>
        /\ HintTokens(sap_in.primary_table) # <<>> =>
               LET mnemonic == StrLower(HintTokens(sap_in.primary_table)[1].token_upper)
               IN  /\ sap_out.strategy[1] = "primary_table_name_table_inferred"
                   /\ sap_out.erp_tcode = SAP_TABLE_HINTS[mnemonic][1]
                   /\ sap_out.erp_screen_name = SAP_TABLE_HINTS[mnemonic][2]
        /\ (NoHintAnywhere /\ QualifyingTokens(sap_in.primary_table) # <<>>) =>
               sap_out.strategy[1] = "primary_table_name_table_inferred"

\* The tokens of the source-field text and the valid identifiers of the
\* three Maestro-side texts.
SourceFieldTokens == _tokenize_identifier_parts(sap_in.source_field)

MaestroSideTokens ==
    UNION {{t.token_upper : t \in {q \in Range(_tokenize_identifier_parts(v)) :
                                       _is_valid_identifier(q.token_upper)}} :
           v \in {sap_in.maestro_field_name, sap_in.maestro_field_description,
                  sap_in.maestro_table_name}}

\* The positions of the source-field tokens C25 lets be returned: valid
\* identifiers written all in upper or all in lower case (str.isupper,
\* str.islower) that differ from the chosen table token.
FieldCandidates ==
    {p \in DOMAIN SourceFieldTokens :
        LET tok == SourceFieldTokens[p]
        IN  /\ Len(tok.token_upper) >= 3
            /\ \A i \in DOMAIN tok.token_upper : tok.token_upper[i] \in AlnumSet
            /\ (IsUpperStr(tok.original) \/ IsLowerStr(tok.original))
            /\ tok.token_upper # SapSelectedTable}

\* The score C25 states for the token at position p (index p - 1).
StatedFieldScore(p) ==
    LET tok == SourceFieldTokens[p]
    IN  (IF IsUpperStr(tok.original) THEN 5 ELSE 0)
          + (IF IsLowerStr(tok.original) THEN 3 ELSE 0)
          + (IF \E i \in DOMAIN tok.original : tok.original[i] \in DigitSet THEN 1 ELSE 0)
          + (IF 3 - (p - 1) > 0 THEN 3 - (p - 1) ELSE 0)
          + (IF tok.token_upper \in MaestroSideTokens THEN 1 ELSE 0)

\* C25: the screen field is never the chosen table token and is always a
\* valid identifier written all in upper or all in lower case in the
\* source-field text; it has the highest score among such tokens and is the
\* first-seen of those with the highest score; when there is no such token
\* no field is returned.
ScreenFieldRule ==
    (pcSap = "done" /\ ~(sap_in.primary_table = <<>> /\ sap_in.source_field = <<>>)) =>
        IF FieldCandidates = {} THEN sap_out.erp_screen_field_name = <<>>
        ELSE /\ sap_out.erp_screen_field_name # SapSelectedTable
             /\ \E p \in FieldCandidates :
                    /\ sap_out.erp_screen_field_name = SourceFieldTokens[p].token_upper
                    /\ \A q \in FieldCandidates :
                           /\ StatedFieldScore(q) <= StatedFieldScore(p)
                           /\ StatedFieldScore(q) = StatedFieldScore(p) => q >= p

\* C25 witness: 'mat1 WERKS' holds two candidates of equal score and the
\* first was returned, with a table token chosen from another text.
ScreenFieldWitness ==
    /\ pcSap = "done"
    /\ sap_in.source_field = sMat1Werks
    /\ SapSelectedTable # <<>>
    /\ FieldCandidates = {1, 2}
    /\ StatedFieldScore(1) = StatedFieldScore(2)
    /\ sap_out.erp_screen_field_name = <<"M","A","T","1">>

(***************************************************************************)
(* Properties of the field category                                        *)
(***************************************************************************)
CatStatusIs(status) == StrUpper(StrStrip(cat_row.match_status)) = status

HasClaimedCriticalSubstring ==
    \E sub \in {<<"N","a","m","e">>, <<"S","i","t","e">>, <<"D","a","t","e">>,
                <<"L","e","a","d","T","i","m","e">>, <<"N","u","m","b","e","r">>} :
        Contains(cat_row.maestro_field_name, sub)

HasLT == Contains(cat_row.maestro_field_name, <<"L","T">>)

\* The first-match-wins table of C9, with critical standing for "the name
\* signals a critical field".
CategoryTable(critical) ==
    /\ cat_row.maestro_is_key => cat_out = "Identifier"
    /\ (~cat_row.maestro_is_key /\ CatStatusIs(sETN_ONLY)) =>
           cat_out = "Optional/Reference"
    /\ (~cat_row.maestro_is_key /\ ~CatStatusIs(sETN_ONLY) /\ critical) =>
           cat_out = "Critical"
    /\ (~cat_row.maestro_is_key /\ CatStatusIs(sMATCHED) /\ ~critical) =>
           cat_out = "Functional Enabler"
    /\ (~cat_row.maestro_is_key /\ ~CatStatusIs(sETN_ONLY) /\ ~CatStatusIs(sMATCHED)
            /\ ~critical) =>
           cat_out = None

\* C9 (as stated): Identifier if key; else Optional/Reference if ETN_ONLY;
\* else Critical if the name contains Name, Site, Date, LeadTime or Number;
\* else Functional Enabler if MATCHED; else unclassified.
CategoryFirstMatchClaimed ==
    pcCat = "done" => CategoryTable(HasClaimedCriticalSubstring)

\* C9 (amended): the same first-match-wins order, where the Critical test is
\* "the name contains Name, Site, Date, LeadTime, Number or LT".
CategoryFirstMatch ==
    pcCat = "done" => CategoryTable(HasClaimedCriticalSubstring \/ HasLT)

\* C9 witness: a non-key MATCHED field whose name holds LT and none of the
\* five listed substrings has been categorised.
CategoryWitness ==
    /\ pcCat = "done"
    /\ ~cat_row.maestro_is_key
    /\ CatStatusIs(sMATCHED)
    /\ HasLT /\ ~HasClaimedCriticalSubstring
    /\ cat_out = "Critical"

(***************************************************************************)
(* Reference expansion properties                                          *)
(***************************************************************************)
Done == pcExp = "done"

\* The reference hops a returned field's dotted path followed from the root:
\* the path starts with the root's table and the referenced table's name,
\* and ends with the field's own name after one segment per further hop.
Hops(field) == Len(field.id.path) - 2

\* The table in which the walk along segs, started in table_id, ends.
RECURSIVE WalkPath(_, _, _)
WalkPath(schema, table_id, segs) ==
    IF Len(segs) <= 1 THEN table_id
    ELSE LET c == CHOOSE c \in Range(schema.columns) :
                      c.table_id = table_id /\ c.field_name = segs[1]
         IN  WalkPath(schema, c.referenced_table_id, Tail(segs))

FieldTableOf(field) ==
    WalkPath(exp_schema, exp_root.referenced_table_id,
             SubSeq(field.id.path, 3, Len(field.id.path)))

\* Table A references B and B references A, and the root field is A's.
RootInTwoCycle ==
    /\ exp_root # <<>>
    /\ exp_root.referenced_table_id # exp_root.table_id
    /\ \E c \in Range(exp_schema.columns) :
           /\ c.table_id = exp_root.referenced_table_id
           /\ c.referenced_table_id = exp_root.table_id
           /\ c.display_on_export
           /\ ~c.is_calculated

\* C4: expansion started from any root reference field with an empty visited
\* set terminates and never raises, also on a cyclic reference graph, and
\* the list it returns is a function of the schema, the root and the depth.
ExpansionTerminates ==
    /\ <>Done
    /\ [](pcExp # "raised")
    /\ [](Done => exp_result = ExpandedFields(exp_schema, RootFieldInfo(exp_root),
                                   InitialPath(exp_root), {}, exp_max_depth,
                                   RootFieldProps(exp_root)))

ExpansionTerminatesWitness ==
    /\ Done
    /\ RootInTwoCycle
    /\ "Cycle detected" \in exp_log
    /\ exp_result # <<>>

\* C5: no returned field followed more than max_depth reference hops from
\* the root, and on the chain with the default depth, started at its first
\* table, no returned field belongs to a table behind the 6th or 7th hop.
ExpansionDepthBound ==
    Done =>
        /\ \A i \in DOMAIN exp_result : Hops(exp_result[i]) <= exp_max_depth
        /\ (exp_schema = ChainSchema /\ exp_max_depth = DefaultMaxDepth
                /\ exp_root.table_id = 1)
            => \A i \in DOMAIN exp_result :
                   FieldTableOf(exp_result[i]) \notin {7, 8}

ExpansionDepthWitness ==
    /\ Done
    /\ exp_schema = ChainSchema
    /\ exp_max_depth = DefaultMaxDepth
    /\ exp_root.table_id = 1
    /\ "Max depth reached" \in exp_log
    /\ {FieldTableOf(exp_result[i]) : i \in DOMAIN exp_result} = 2..5

\* The most recent call was made with no depth left or into a visited table.
ReturnedEarly ==
    /\ exp_return # <<>>
    /\ \/ exp_return.max_depth <= 0
       \/ exp_return.field_info.referenced_table_id \in exp_return.visited_tables

\* The most recent call was made, with depth left and outside a cycle, for a
\* field that is not reference-typed or is calculated.
ReturnedPlainField ==
    /\ exp_return # <<>>
    /\ ~ReturnedEarly
    /\ \/ ~StartsWith(StrLower(exp_return.field_info.data_type), sreference)
       \/ exp_return.field_info.is_calculated

\* The value is one expanded field built from the call's field, with the
\* full dotted path and the provenance note naming the path's last but one
\* segment.
OneFieldWithPathAndNote ==
    /\ Len(exp_return.value) = 1
    /\ exp_return.value[1].id.path = exp_return.current_path
    /\ exp_return.value[1].is_extended
    /\ exp_return.value[1].data_type = exp_return.field_info.data_type
    /\ exp_return.value[1].description.origin_table =
           exp_return.current_path[Len(exp_return.current_path) - 1]
    /\ exp_return.value[1].description.origin_description =
           StrStrip(exp_return.field_info.description)

PathTables(i) == {exp_stack[j].field_info.referenced_table_id : j \in 1..(i - 1)}

\* C13: the visited set of every activation is exactly the set of table ids
\* referenced along the path from the root to it, the set an activation
\* hands to its children is that set plus its own referenced table, before
\* and after every child's return, and a call is only cut off as a cycle
\* when its table is referenced on its own path (never because of a sibling).
VisitedPerBranch ==
    /\ \A i \in DOMAIN exp_stack :
           /\ exp_stack[i].visited_tables = PathTables(i)
           /\ exp_stack[i].at = "loop" =>
                  exp_stack[i].new_visited =
                      PathTables(i) \cup {exp_stack[i].field_info.referenced_table_id}
    /\ (exp_return # <<>> /\ exp_return.branch = "cycle") =>
           exp_return.field_info.referenced_table_id
               \in PathTables(Len(exp_return.current_path) - 1)

\* Two sibling reference fields that point to the same table were both
\* expanded: the result holds fields of that table reached through each.
VisitedPerBranchWitness ==
    /\ Done
    /\ \E i, j \in DOMAIN exp_result :
           LET pi == exp_result[i].id.path
               pj == exp_result[j].id.path
           IN  /\ Len(pi) = Len(pj)
               /\ Len(pi) >= 4
               /\ SubSeq(pi, 1, Len(pi) - 2) = SubSeq(pj, 1, Len(pj) - 2)
               /\ pi[Len(pi) - 1] # pj[Len(pj) - 1]
               /\ FieldTableOf(exp_result[i]) = FieldTableOf(exp_result[j])

\* The rows of final_rows that the expansion added, after the base row.
ExtendedRows == {i \in DOMAIN exp_final_rows : i > 1}

\* The column a returned field was read from.
TerminalColumn(field) ==
    CHOOSE c \in Range(exp_schema.columns) :
        /\ c.table_id = FieldTableOf(field)
        /\ c.field_name = field.id.path[Len(field.id.path)]

HasRootContext(field) ==
    /\ field.table_id = exp_root.table_id
    /\ field.table_name = exp_root.table_name
    /\ field.is_key = exp_root.is_key
    /\ field.display_on_export = exp_root.display_on_export
    /\ field.created_at = exp_root.created_at

\* C14: every expanded field, as returned by a call at any depth and as
\* appended to final_rows, has the table_id, table_name, is_key,
\* display_on_export and created_at of the root field.
RootContextPropagated ==
    /\ exp_return # <<>> =>
           \A i \in DOMAIN exp_return.value : HasRootContext(exp_return.value[i])
    /\ \A i \in ExtendedRows : HasRootContext(exp_final_rows[i])

\* A field two hops away whose own column differs from the root in key
\* flag, export flag and creation time has been appended.
RootContextWitness ==
    /\ pcExp = "built"
    /\ \E i \in DOMAIN exp_result :
           LET c == TerminalColumn(exp_result[i])
           IN  /\ Hops(exp_result[i]) >= 2
               /\ c.is_key # exp_root.is_key
               /\ c.display_on_export # exp_root.display_on_export
               /\ c.created_at # exp_root.created_at
               /\ HasRootContext(exp_final_rows[i + 1])

\* The dotted path shown for the k-th returned field: the root field's name,
\* then the path of the field without the root's table.
DisplayPathOf(k) ==
    (IF exp_root.field_name # exp_root.referenced_table
     THEN <<exp_root.field_name>> ELSE <<>>)
        \o Tail(exp_result[k].id.path)

\* C15: every row the expansion appended has is_extended = TRUE and a
\* field_name made of exactly four blanks and the dotted path, and the base
\* row has is_extended = FALSE.
ExpandedFieldMarker ==
    /\ \A i \in ExtendedRows :
           /\ exp_final_rows[i].is_extended = TRUE
           /\ exp_final_rows[i].field_name.indent = "    "
           /\ exp_final_rows[i].field_name.path = DisplayPathOf(i - 1)
    /\ exp_final_rows # <<>> => exp_final_rows[1].is_extended = FALSE

ExpandedFieldMarkerWitness ==
    /\ pcExp = "built"
    /\ Len(exp_final_rows) >= 3
    /\ exp_final_rows[1].is_extended = FALSE
    /\ exp_final_rows[3].is_extended = TRUE
    /\ Len(exp_final_rows[3].field_name.path) >= 4

(***************************************************************************)
(* Properties of the compound identifiers                                  *)
(***************************************************************************)
\* An integer id as a decimal id.
WholeId(n) == [whole |-> n, frac |-> <<0>>]

\* C16 (as stated): after any number of expanded fields of a root, each
\* identifier is strictly greater than the root id, strictly less than the
\* next integer id, and strictly greater than the identifier before it.
CompoundIdOrdered ==
    \A k \in DOMAIN id_values :
        /\ IdLess(WholeId(id_root), id_values[k])
        /\ IdLess(id_values[k], WholeId(id_root + 1))
        /\ k > 1 => IdLess(id_values[k - 1], id_values[k])

(***************************************************************************)
(* Properties of the persistence                                           *)
(***************************************************************************)
\* C19 (as stated): after a run that returned without raising, the table
\* holds exactly the rows assembled in that run, whatever earlier runs
\* wrote and also when the run assembled no row.
ClearAndRewrite ==
    ps_outcome = "returned" => cdm_table = ps_rows

\* C20 (as stated): after a run in which a row insert failed, the table
\* holds its complete previous contents or the complete new row set.
NoHalfCommittedWrite ==
    ps_outcome = "raised" => cdm_table \in {ps_previous, ps_rows}

(***************************************************************************)
(* Properties of the row assembly                                          *)
(***************************************************************************)
Present(v) == v \notin {None, ""}

\* The description C21 states for the payload: the KNX description when
\* present, otherwise the mapping notes, otherwise the row's field name.
BackfilledDescription ==
    LET knx_description ==
            IF asm_payload.knx = NoneRow THEN None
            ELSE IF asm_payload.etn # NoneRow THEN asm_payload.knx.knx_column_description
            ELSE asm_payload.knx.description
        notes == IF asm_payload.etn # NoneRow THEN asm_payload.etn.notes ELSE None
    IN  IF Present(knx_description) THEN knx_description
        ELSE IF Present(notes) THEN notes
        ELSE asm_row.maestro_field_name

\* C21 (as stated): in every assembled row the field description is the
\* KNX description when present, otherwise the mapping record's notes, and
\* when neither exists but the row has a field name it is that field name;
\* no assembled row with a field name has an empty description.
DescriptionBackfill ==
    (pcAsm = "done" /\ Present(asm_row.maestro_field_name)) =>
        /\ asm_row.maestro_field_description = BackfilledDescription
        /\ Present(asm_row.maestro_field_description)

(***************************************************************************)
(* Properties of TableDatabase                                             *)
(***************************************************************************)
\* C22 (as stated): after any sequence of insert_table_data calls no two
\* rows of knx_doc_tables have names that are equal ignoring case; a call
\* whose name differs only in case from a stored table updates that table.
TableNamesUniqueIgnoringCase ==
    \A i, j \in DOMAIN db_tables :
        i # j => StrLower(db_tables[i].name) # StrLower(db_tables[j].name)

\* C26 (as stated): after any sequence of calls, with column lists that may
\* repeat a field name, no table has two rows of knx_doc_columns with the
\* same field_name, and no column stored before a call is modified or
\* removed by it.
ColumnsMergedOnce ==
    /\ \A i, j \in DOMAIN db_columns :
           (i # j /\ db_columns[i].table_id = db_columns[j].table_id) =>
               db_columns[i].field_name # db_columns[j].field_name
    /\ db_call # NoneRow =>
           /\ Len(db_before.columns) <= Len(db_columns)
           /\ SubSeq(db_columns, 1, Len(db_before.columns)) = db_before.columns

\* The row of the table the latest call named, before and after the call.
CalledTableBefore == get_table_by_name(db_before.tables, db_call.table_name)
CalledTableAfter == get_table_by_name(db_tables, db_call.table_name)

\* The text C27 states for a column of knx_doc_tables after a call.
MergedByLength(old, new) ==
    IF old = "" \/ Len(old) < Len(new) THEN new ELSE old

\* C27: over the calls for one table name, the length of the stored
\* description and of the stored calculated-fields description never
\* decreases; after each call the stored text is the new text if the old
\* one was empty or strictly shorter, and otherwise the old text unchanged.
DescriptionMergeByLength ==
    db_call # NoneRow =>
        IF CalledTableBefore = NoneRow
        THEN /\ CalledTableAfter.description = db_call.description
             /\ CalledTableAfter.calculated_fields_description
                    = db_call.calculated_fields_description
        ELSE /\ Len(CalledTableAfter.description) >= Len(CalledTableBefore.description)
             /\ Len(CalledTableAfter.calculated_fields_description)
                    >= Len(CalledTableBefore.calculated_fields_description)
             /\ CalledTableAfter.description
                    = MergedByLength(CalledTableBefore.description, db_call.description)
             /\ CalledTableAfter.calculated_fields_description
                    = MergedByLength(CalledTableBefore.calculated_fields_description,
                                     db_call.calculated_fields_description)

\* C27 witness: the third call for one name brought a shorter description,
\* which was not stored, and a longer calculated-fields text, which was.
DescriptionMergeWitness ==
    /\ db_calls = 3
    /\ Len(db_tables) = 1
    /\ CalledTableBefore # NoneRow
    /\ db_call.description = "Parts"
    /\ CalledTableBefore.description = "Parts and sites"
    /\ CalledTableAfter.description = "Parts and sites"
    /\ CalledTableBefore.calculated_fields_description = "Totals"
    /\ CalledTableAfter.calculated_fields_description = "Totals per part and site"

(***************************************************************************)
(* Properties of EtnDocMappingExtractor                                    *)
(***************************************************************************)
\* A tab that is missing, is empty, has no row flagged for output or has
\* none of the target columns.
MalformedTab(sheet) ==
    \/ sheet = NoneRow
    \/ sheet.flags = <<>>
    \/ FlaggedRows(sheet) = <<>>
    \/ ColumnsToKeep(sheet) = <<>>

RECURSIVE SumCounts(_)
SumCounts(counts) ==
    IF counts = <<>> THEN 0 ELSE Head(counts)[2] + SumCounts(Tail(counts))

TabRows(tab_name) == SelectSeq(ext_table, LAMBDA r : r.original_tab = tab_name)

\* What run reports and loads when it succeeds.
LoadedAsCounted ==
    (pcExt = "done" /\ ext_result.success) =>
        /\ ext_idx = Len(TAB_NAMES)
        /\ \A i \in DOMAIN ext_result.tab_counts :
               /\ ext_result.tab_counts[i][2] > 0
               /\ Len(TabRows(ext_result.tab_counts[i][1])) = ext_result.tab_counts[i][2]
        /\ {ext_table[i].original_tab : i \in DOMAIN ext_table}
               = {ext_result.tab_counts[i][1] : i \in DOMAIN ext_result.tab_counts}
        /\ ext_result.rows_inserted = SumCounts(ext_result.tab_counts)
        /\ ext_result.rows_inserted = Len(ext_table)

\* C23: a tab that is missing, empty, without a row flagged for output or
\* without any target column contributes no rows and does not stop the
\* remaining tabs from being extracted and loaded; on success tab_counts
\* has an entry exactly for the tabs that yielded rows and rows_inserted is
\* the sum of those counts.
MalformedTabSkipped ==
    /\ [][(ext_idx' = ext_idx + 1 /\ MalformedTab(ext_tab')) =>
              /\ ext_all_data' = ext_all_data
              /\ ext_tab_counts' = ext_tab_counts
              /\ pcExt' = "run"]_vars
    /\ [][(ext_idx' = ext_idx + 1 /\ ~MalformedTab(ext_tab')) =>
              /\ Len(ext_tab_counts') = Len(ext_tab_counts) + 1
              /\ ext_tab_counts'[Len(ext_tab_counts')][1] = TAB_NAMES[ext_idx']]_vars
    /\ [](pcExt = "run" /\ ext_exists /\ ext_idx = Len(TAB_NAMES) /\ ext_tab_counts # <<>>
              => ENABLED ExtLoad)
    /\ []LoadedAsCounted

\* C23 witness: 'Customer' and the last tab were skipped, one of them for
\* having no flagged row, and the rows of 'Part' were loaded all the same.
MalformedTabWitness ==
    /\ pcExt = "done"
    /\ ext_result.success
    /\ Len(ext_result.tab_counts) = 1
    /\ ext_result.tab_counts[1] = <<"Part", 2>>
    /\ ext_tab # NoneRow
    /\ ext_tab.flags # <<>>
    /\ MalformedTab(ext_tab)
    /\ Len(ext_table) = 2

(***************************************************************************)
(* Properties of ExtendKnxDoc.run and of export_to_database                *)
(***************************************************************************)
\* The positions of the base rows in knx_doc_extended.
BasePositions == {i \in DOMAIN run_table : ~run_table[i].is_extended}

\* The number of fields the expansion of a base row gives.
ExpansionSize(row) ==
    IF _is_expandable_reference(row)
    THEN Len(ExpandedFields(run_schema, RootFieldInfo(row), InitialPath(row), {},
                            run_max_depth, RootFieldProps(row)))
    ELSE 0

\* The position C28 gives the k-th base row: behind the earlier base rows
\* and their expanded rows.
RECURSIVE PositionOfBase(_)
PositionOfBase(k) ==
    IF k = 1 THEN 1
    ELSE PositionOfBase(k - 1) + 1 + ExpansionSize(run_base[k - 1])

\* C28: after ExtendKnxDoc.run the display_order values of
\* knx_doc_extended are exactly 1..N, N the returned insert count; the base
\* rows keep the order of the base query, and the expanded rows of a root
\* reference field occupy the consecutive positions right after that
\* root's base row, before the next base row.
DisplayOrderContiguous ==
    pcRun = "done" =>
        /\ Len(run_table) = run_count
        /\ \A i \in DOMAIN run_table : run_table[i].display_order = i
        /\ Cardinality(BasePositions) = Len(run_base)
        /\ \A k \in DOMAIN run_base :
               LET p == PositionOfBase(k)
               IN  /\ p \in BasePositions
                   /\ run_table[p].id = run_base[k].id
                   /\ \A j \in 1..ExpansionSize(run_base[k]) :
                          /\ run_table[p + j].is_extended
                          /\ run_table[p + j].id.whole = run_base[k].id
                          /\ run_table[p + j].table_id = run_base[k].table_id

\* C28 witness: a run over two tables where a root reference was expanded
\* into more than one row and base rows follow its expanded rows.
DisplayOrderWitness ==
    /\ pcRun = "done"
    /\ Len(run_schema.tables) >= 2
    /\ \E k \in DOMAIN run_base :
           /\ ExpansionSize(run_base[k]) >= 2
           /\ k < Len(run_base)
           /\ PositionOfBase(k + 1) = PositionOfBase(k) + 1 + ExpansionSize(run_base[k])
    /\ run_count > Len(run_base) + 2

\* C29: for every schema, ExtendKnxDoc(max_depth=5).run writes the same
\* rows, with the same identifiers and display_order, into knx_doc_extended
\* as the expansion step of export_to_database.
ImplementationsAgree ==
    (pcRun = "done" /\ pcXp = "done" /\ run_max_depth = DefaultMaxDepth) =>
        run_table = xp_table

\* C29 witness: both have run over a schema with an expansion more than
\* three levels deep, and the table holds expanded rows.
ImplementationsAgreeWitness ==
    /\ pcRun = "done"
    /\ pcXp = "done"
    /\ run_max_depth = DefaultMaxDepth
    /\ \E i \in DOMAIN xp_table :
           /\ xp_table[i].is_extended
           /\ Len(xp_table[i].field_name.path) > 4
    /\ \E i \in DOMAIN run_table : run_table[i].is_extended

(***************************************************************************)
(* Excel export: every exported ETN CDM row is classified                   *)
(***************************************************************************)
FieldCategories == {"Identifier", "Critical", "Functional Enabler", "Optional/Reference"}

NormalisedStatus(row) == StrUpper(StrStrip(row.match_status))

\* The field is flagged key in etn_cdm_mappings or is a key of its target table.
IsKeyField(row) ==
    \/ row.maestro_is_key = "True"
    \/ <<StrUpper(row.canonical_entity_name), StrUpper(StrStrip(row.maestro_field_name))>>
           \in xl_keys

\* The stated export filter.
SurvivesExportFilter(row) ==
    /\ StrUpper(row.canonical_entity_name) \in target_tables_upper
    /\ \/ NormalisedStatus(row) \in {sETN_ONLY, sMATCHED}
       \/ IsKeyField(row)

SameField(a, b) ==
    /\ a.canonical_entity_name = b.canonical_entity_name
    /\ a.maestro_field_name = b.maestro_field_name
    /\ a.match_status = b.match_status

\* C30: the rows the export writes are the rows of etn_cdm_mappings that pass
\* the stated filter (target entity, and status ETN_ONLY or MATCHED or key
\* field); each of them has one of the four field categories, and an exported
\* KNX_ONLY row is a key field with the category Identifier.
ExportedRowsClassified ==
    pcXl = "done" =>
        /\ Len(xl_out) = Len(SelectSeq(xl_table, SurvivesExportFilter))
        /\ \A i \in DOMAIN xl_table :
               SurvivesExportFilter(xl_table[i])
                   <=> \E j \in DOMAIN xl_out : SameField(xl_table[i], xl_out[j])
                                               /\ (xl_out[j].maestro_is_key <=> IsKeyField(xl_table[i]))
        /\ \A j \in DOMAIN xl_out :
               /\ xl_out[j].field_category \in FieldCategories
               /\ NormalisedStatus(xl_out[j]) = sKNX_ONLY
                      => xl_out[j].maestro_is_key /\ xl_out[j].field_category = "Identifier"

\* An exported KNX_ONLY key field next to a KNX_ONLY field of a target table
\* that the filter dropped.
ExportedRowsWitness ==
    /\ pcXl = "done"
    /\ Len(xl_out) < Len(xl_table)
    /\ \E j \in DOMAIN xl_out :
           /\ NormalisedStatus(xl_out[j]) = sKNX_ONLY
           /\ xl_out[j].field_category = "Identifier"
    /\ \E i \in DOMAIN xl_table :
           /\ NormalisedStatus(xl_table[i]) = sKNX_ONLY
           /\ xl_table[i].canonical_entity_name = sPart
           /\ ~IsKeyField(xl_table[i])

====
